---- MODULE Spec2Model ----
(***************************************************************************)
(* State-machine model of the chat-platform bridge: the UnifiedClient      *)
(* facade (src/src/client.ts), the provider base class                     *)
(* (src/src/providers/base.ts) and the three providers: DiscordProvider,   *)
(* RootProvider (the @rootsdk/server-bot variant, provider.ts 646-1261)    *)
(* and RootAppProvider.  The native SDKs are opaque collaborators: every   *)
(* outcome they can produce (resolve, reject, callback order) is a         *)
(* nondeterministic choice.  Node's EventEmitter is modelled by what it    *)
(* does: emit('error') with no 'error' listener throws the error.          *)
(***************************************************************************)
EXTENDS Integers, Sequences, FiniteSets, TLC

\* ------------------------------------------------------------------ bounds
MaxConnects == 2          \* connect() calls per run
MaxNativeEvents == 3      \* native events delivered per run
MaxAttemptsCfg == 2       \* largest config.maxReconnectAttempts explored
MaxListLen == 1           \* longest embeds / files list of an options bag

\* --------------------------------------------------------------- constants
Undefined == "undefined"

\* platform identifiers handed to the UnifiedClient constructor
PlatformInputs == {"discord", "Discord", "root", "root-app", "slack", ""}

\* the generic operation surface
Ops == {"sendMessage", "editMessage", "deleteMessage", "getUser", "getChannel", "getGuild"}

\* client.ts 108-126: the names the facade forwards
ForwardedEvents ==
  {"ready", "message", "messageUpdate", "messageDelete", "typingStart",
   "userUpdate", "channelCreate", "channelUpdate", "channelDelete",
   "guildCreate", "guildUpdate", "guildDelete", "guildMemberAdd",
   "guildMemberRemove", "guildMemberUpdate", "error", "debug"}

VARIABLES
  ctor,              \* "new" | "ok" | "failed": the UnifiedClient constructor
  ctorError,         \* what the constructor threw ("none" when it returned)
  ctorInput,         \* the platform identifier the constructor was given
  platformName,      \* provider.platformName ("none" while there is no provider)
  providerCreated,   \* a provider object was instantiated
  forwarding,        \* setupEventForwarding has run
  maxAttempts,       \* config.maxReconnectAttempts of the Root provider
  clientErrorHandler,\* the caller registered client.on('error', ...)
  isConnected,       \* BaseProvider._isConnected
  native,            \* native SDK session: idle | connecting | up | lost | down
  unattendedLoss,    \* the native connection was lost; no disconnect() or new session since
  loginState,        \* Discord client.login promise: none | pending | accepted
  readyPending,      \* connect id whose native ClientReady callback has not fired (0: none)
  connectPc,         \* position of the connect() in flight: idle | awaitLogin | awaitStart | sleeping
  attempt,           \* Root connect loop counter
  lastError,         \* Root connect loop: lastError is set
  connectSeq,        \* number of connect() calls so far
  connectEntry,      \* _isConnected when the connect() in flight was called
  attemptsFailed,    \* every native attempt of the connect() in flight has failed so far
  readyEmittedFor,   \* connect ids for which `ready` was emitted
  connectReturn,     \* how the last connect() settled
  lastDisconnect,    \* how the last disconnect() settled
  lastOp,            \* how the last generic operation settled
  nativeSeq,         \* native events delivered so far
  pending,           \* Root async handlers awaiting a native fetch
  providerEvents,    \* events the provider emitted, in order
  clientEvents,      \* events the UnifiedClient emitted, in order
  escaped,           \* an exception left a listener: none | listener | rejection
  ctorToken,         \* config.token the constructor was given
  nativeListeners,   \* setupEventListeners has registered the native listeners
  envAllow,          \* process.env.ALLOW_<PLATFORM>_BOT
  preventAutoStart,  \* config.preventAutoStart
  lastGate,          \* how checkStartupPermission decided at the last connect()
  colorCase,         \* the last color normalization: inputs and results
  embedCase,         \* the last embed round trip: input and result
  loggerLevel,       \* level of the Logger singleton (-1: not created yet)
  childLoggers,      \* the child loggers created so far
  lastEmit,          \* name and arguments of the last emit of a provider listener
  heldMessage,       \* a generic Message a caller holds (Null: none yet)
  nativeMessage,     \* the native message object the held Message was converted from
  lastMessageOp,     \* how the last method of the held Message settled
  lastNative,        \* the last native event a Discord listener was called with
  bagCase,           \* the last MessageOptions bag given to RootProvider.sendMessage
  httpCase,          \* the last RootHTTPClient request: response and outcome
  channelCase,       \* the last channel-type conversion: input and result
  opCase,            \* the last Discord messaging call: channel found and outcome
  disconnectedAt,    \* connectSeq when disconnect() last returned normally (-1: never)
  ws,                \* RootWebSocketClient.ws: id of the current socket (0: null)
  sockets,           \* every WebSocket created so far, with its connect() promise
  wsConfig,          \* autoReconnect and maxReconnectAttempts of the websocket client
  reconnectAttempts, \* RootWebSocketClient.reconnectAttempts
  isReconnecting,    \* RootWebSocketClient.isReconnecting
  heartbeatInterval, \* RootWebSocketClient.heartbeatInterval is set
  reconnectTimers,   \* reconnect timers scheduled and not fired yet
  wsLog              \* what the websocket client did since the last READY / disconnect()

vars == <<ctor, ctorError, ctorInput, platformName, providerCreated, forwarding,
          maxAttempts, clientErrorHandler, isConnected, native, unattendedLoss,
          loginState,
          readyPending, connectPc, attempt, lastError, connectSeq, connectEntry,
          attemptsFailed, readyEmittedFor, connectReturn, lastDisconnect, lastOp,
          nativeSeq, pending, providerEvents, clientEvents, escaped,
          ctorToken, nativeListeners, envAllow, preventAutoStart, lastGate,
          colorCase, embedCase, loggerLevel, childLoggers, lastEmit,
          heldMessage, nativeMessage, lastMessageOp, lastNative, bagCase, httpCase,
          channelCase, opCase, disconnectedAt, ws, sockets, wsConfig, reconnectAttempts, isReconnecting,
          heartbeatInterval, reconnectTimers, wsLog>>

connVars == <<isConnected, native, unattendedLoss, loginState, readyPending, connectPc, attempt,
              lastError, connectSeq, connectEntry, attemptsFailed, readyEmittedFor,
              connectReturn>>
ctorVars == <<ctor, ctorError, ctorInput, platformName, providerCreated, forwarding,
              maxAttempts, ctorToken, nativeListeners>>
eventVars == <<nativeSeq, pending, providerEvents, clientEvents, escaped>>
\* the client, its provider and the connection
mainVars == <<ctorVars, clientErrorHandler, connVars, lastDisconnect, lastOp, eventVars,
              lastGate>>
\* state no step of the connection life cycle writes
sideVars == <<envAllow, preventAutoStart, colorCase, embedCase, lastEmit>>
\* the Logger singleton and its children
loggerVars == <<loggerLevel, childLoggers>>
\* a generic Message in the caller's hands
msgVars == <<heldMessage, nativeMessage, lastMessageOp>>
\* inputs and results of the conversions and requests applied once
caseVars == <<bagCase, httpCase, channelCase, opCase>>
\* the Root websocket client
wsVars == <<ws, sockets, wsConfig, reconnectAttempts, isReconnecting, heartbeatInterval,
            reconnectTimers, wsLog>>
extVars == <<msgVars, caseVars, wsVars, lastNative, disconnectedAt>>

NoConnectReturn == [id |-> 0, result |-> "none", connected |-> FALSE, ready |-> FALSE,
                    entry |-> FALSE, allFailed |-> FALSE]
NoDisconnect == [called |-> FALSE, threw |-> FALSE, connectedBefore |-> FALSE,
                 connectedAfter |-> FALSE]
NoOp == [op |-> "none", connected |-> FALSE, result |-> "none", nativeCalled |-> FALSE,
         embeds |-> 0, files |-> 0, content |-> Undefined, answer |-> "ok"]
NoGate == [called |-> FALSE, blocked |-> FALSE, env |-> Undefined, prevent |-> Undefined,
           providerCalled |-> FALSE, connectedBefore |-> FALSE, connectedAfter |-> FALSE]
NoColorCase == [kind |-> "none", applied |-> FALSE]
NoEmbedCase == [kind |-> "none", applied |-> FALSE]
NoEmit == [name |-> "none", platform |-> "none", args |-> <<>>]
NoMessageOp == [op |-> "none", platform |-> "none", connected |-> FALSE, result |-> "none",
                nativeCalled |-> FALSE, content |-> "", before |-> [kind |-> "none"],
                returned |-> [entity |-> "null"]]
NoNative == [event |-> "none", oldPartial |-> FALSE, newPartial |-> FALSE,
             malformed |-> FALSE, seq |-> 0]
NoCase == [kind |-> "none", applied |-> FALSE]
NoWsLog == [user |-> "new", attempts |-> 0, maxReached |-> FALSE, opened |-> FALSE,
            heartbeat |-> FALSE]

\* the state before `new UnifiedClient(...)`
MainInit ==
  /\ ctor = "new"
  /\ ctorError = "none"
  /\ ctorInput = Undefined
  /\ platformName = "none"
  /\ providerCreated = FALSE
  /\ forwarding = FALSE
  /\ maxAttempts = 1
  /\ clientErrorHandler = FALSE
  /\ isConnected = FALSE
  /\ native = "idle"
  /\ unattendedLoss = FALSE
  /\ loginState = "none"
  /\ readyPending = 0
  /\ connectPc = "idle"
  /\ attempt = 0
  /\ lastError = FALSE
  /\ connectSeq = 0
  /\ connectEntry = FALSE
  /\ attemptsFailed = FALSE
  /\ readyEmittedFor = {}
  /\ connectReturn = NoConnectReturn
  /\ lastDisconnect = NoDisconnect
  /\ lastOp = NoOp
  /\ nativeSeq = 0
  /\ pending = {}
  /\ providerEvents = <<>>
  /\ clientEvents = <<>>
  /\ escaped = "none"
  /\ ctorToken = Undefined
  /\ nativeListeners = FALSE
  /\ lastGate = NoGate

\* no Message received yet
MsgInit ==
  /\ heldMessage = [kind |-> "none"]
  /\ nativeMessage = [kind |-> "none"]
  /\ lastMessageOp = NoMessageOp

\* no conversion or request applied yet
CaseInit ==
  /\ bagCase = NoCase
  /\ httpCase = NoCase
  /\ channelCase = NoCase
  /\ opCase = NoCase

\* the state after `new RootWebSocketClient(config, logger)`
WsInit ==
  /\ ws = 0
  /\ sockets = <<>>
  /\ wsConfig = [autoReconnect |-> FALSE, maxReconnectAttempts |-> 0]
  /\ reconnectAttempts = 0
  /\ isReconnecting = FALSE
  /\ heartbeatInterval = FALSE
  /\ reconnectTimers = 0
  /\ wsLog = NoWsLog

ExtInit == MsgInit /\ CaseInit /\ WsInit /\ lastNative = NoNative /\ disconnectedAt = -1

Init ==
  /\ MainInit
  /\ ExtInit
  /\ envAllow = Undefined
  /\ preventAutoStart = Undefined
  /\ colorCase = NoColorCase
  /\ embedCase = NoEmbedCase
  /\ loggerLevel = -1
  /\ childLoggers = <<>>
  /\ lastEmit = NoEmit

\* ================================================================== logger

\* logger.ts 5-11: the LogLevel enum
LevelINFO == 1
LevelWARN == 2
LogLevels == 0..4

MaxChildren == 1          \* child loggers the application creates itself

\* Logger.getInstance: the singleton's level, created on first use (-1: it
\* does not exist yet).  production: NODE_ENV is 'production' or 'prod'
getInstance(level, production) ==
  IF level # -1 THEN level
  ELSE IF production THEN LevelWARN ELSE LevelINFO

\* Logger.child: a new Logger whose level is a copy of the parent's
child(parentLevel, owner) == [owner |-> owner, level |-> parentLevel, own |-> FALSE]

\* Logger.setLevel on the singleton: the singleton and the children afterwards
setLevel_Propagate(children, x) ==
  [level |-> x, children |-> [i \in DOMAIN children |-> [children[i] EXCEPT !.level = x]]]

setLevel(children, x) ==
  [level |-> x, children |-> children]

\* Logger.getLevel
getLevel(logger) == logger.level

\* ============================================================ construction

\* String.prototype.toLowerCase on the identifiers of PlatformInputs and on
\* the channel-type strings of StubChannelTypes
toLowerCase(s) ==
  CASE s = "Discord" -> "discord"
    [] s = "Voice" -> "voice"
    [] s = "TEXT" -> "text"
    [] s = "DM" -> "dm"
    [] OTHER -> s

\* BaseProvider.validateConfig('token'): the key is absent, undefined or null
validateConfig_KeyOnly(token) ==
  IF token = "absent"
  THEN "Missing required config property: token"
  ELSE "none"

validateConfig(token) ==
  IF token \in {"absent", Undefined, "null"}
  THEN "Missing required config property: token"
  ELSE "none"

\* UnifiedClient.createProvider with the provider constructors it calls:
\* the provider it returns, or what it throws
createProvider_DefaultRoot(platform, token) ==
  LET p == toLowerCase(platform) IN
  CASE p = "discord" ->
         IF validateConfig(token) # "none"
         THEN [provider |-> "none", error |-> validateConfig(token)]
         ELSE [provider |-> "discord", error |-> "none"]
    [] p = "root-app" -> [provider |-> "root-app", error |-> "none"]
    [] OTHER ->
         IF validateConfig(token) # "none"
         THEN [provider |-> "none", error |-> validateConfig(token)]
         ELSE [provider |-> "root", error |-> "none"]

createProvider(platform, token) ==
  LET p == toLowerCase(platform) IN
  CASE p = "discord" ->
         IF validateConfig(token) # "none"
         THEN [provider |-> "none", error |-> validateConfig(token)]
         ELSE [provider |-> "discord", error |-> "none"]
    [] p = "root" ->
         IF validateConfig(token) # "none"
         THEN [provider |-> "none", error |-> validateConfig(token)]
         ELSE [provider |-> "root", error |-> "none"]
    [] p = "root-app" -> [provider |-> "root-app", error |-> "none"]
    [] OTHER -> [provider |-> "none", error |-> "UnsupportedPlatformError"]

\* new UnifiedClient(options): createProvider, then setupEventForwarding
Constructor ==
  /\ ctor = "new"
  /\ \E platform \in PlatformInputs, token \in {"tok", "absent", Undefined, "null"},
        m \in 1..MaxAttemptsCfg :
       LET r == createProvider(platform, token) IN
       \* maxReconnectAttempts is read by the Root provider only
       /\ (r.provider # "root") => m = 1
       /\ ctorInput' = platform
       /\ ctorToken' = token
       \* client.ts 70: getLogger(); initLogger of the provider constructor
       /\ loggerLevel' = getInstance(loggerLevel, FALSE)
       /\ childLoggers' = IF r.error = "UnsupportedPlatformError"
                          THEN childLoggers
                          ELSE Append(childLoggers,
                                      child(getInstance(loggerLevel, FALSE), "provider"))
       /\ maxAttempts' = m
       /\ IF r.error # "none"
          THEN /\ ctor' = "failed"
               /\ ctorError' = r.error
               /\ platformName' = "none"
               /\ providerCreated' = FALSE
               /\ nativeListeners' = FALSE
               /\ forwarding' = FALSE
          ELSE /\ ctor' = "ok"
               /\ ctorError' = "none"
               /\ platformName' = r.provider
               /\ providerCreated' = TRUE
               /\ nativeListeners' = TRUE
               /\ forwarding' = TRUE
  /\ UNCHANGED <<extVars, sideVars, lastGate, clientErrorHandler, connVars, lastDisconnect, lastOp,
                 eventVars>>

\* client.on('error', handler)
RegisterErrorHandler ==
  /\ ctor = "ok"
  /\ ~clientErrorHandler
  /\ clientErrorHandler' = TRUE
  /\ UNCHANGED <<extVars, sideVars, loggerVars, lastGate, ctorVars, connVars, lastDisconnect, lastOp, eventVars>>

\* ================================================================ emission

Event(name, seq) == [name |-> name, seq |-> seq]

\* BaseProvider.emitGenericEvent / EventEmitter.emit on the provider, with the
\* forwarder UnifiedClient.setupEventForwarding registered on it.  threw: the
\* emit call threw (an 'error' event reached an emitter with no 'error' listener)
emitGenericEvent(pe, ce, ev) ==
  [pe |-> Append(pe, ev),
   ce |-> IF forwarding /\ ev.name \in ForwardedEvents THEN Append(ce, ev) ELSE ce,
   threw |-> /\ ev.name = "error"
             /\ ~(forwarding /\ clientErrorHandler)]

\* BaseProvider.handleError: this.emit('error', error)
handleError(pe, ce, seq) == emitGenericEvent(pe, ce, Event("error", seq))

\* ============================================================= startup gate

\* values of process.env.ALLOW_<PLATFORM>_BOT
EnvValues == {Undefined, "true", "false", "TRUE", "1"}
\* values of config.preventAutoStart: undefined, the booleans, a truthy string
PreventValues == {Undefined, "boolean true", "boolean false", "string true"}

\* UnifiedClient.checkStartupPermission: the error it throws, "none" when it
\* returns
checkStartupPermission_TruthyPrevent(env, prevent) ==
  IF env = "false" THEN "Error: startup blocked by env"
  ELSE IF prevent \in {"boolean true", "string true"} /\ env # "true"
  THEN "Error: startup blocked"
  ELSE "none"

checkStartupPermission(env, prevent) ==
  IF env = "false" THEN "Error: startup blocked by env"
  ELSE IF prevent = "boolean true" /\ env # "true" THEN "Error: startup blocked"
  ELSE "none"

Gate(blocked, providerCalled, before, after) ==
  [called |-> TRUE, blocked |-> blocked, env |-> envAllow, prevent |-> preventAutoStart,
   providerCalled |-> providerCalled, connectedBefore |-> before, connectedAfter |-> after]

\* the deployment sets or clears the environment variable
SetEnv ==
  /\ \E v \in EnvValues : v # envAllow /\ envAllow' = v
  /\ UNCHANGED <<extVars, mainVars, preventAutoStart, colorCase, embedCase, loggerLevel,
                 childLoggers, lastEmit>>

\* the caller sets preventAutoStart on the config object the client holds
SetPreventAutoStart ==
  /\ \E v \in PreventValues : v # preventAutoStart /\ preventAutoStart' = v
  /\ UNCHANGED <<extVars, mainVars, envAllow, colorCase, embedCase, loggerLevel,
                 childLoggers, lastEmit>>

\* UnifiedClient.connect: checkStartupPermission throws, connect() rejects
ConnectBlocked ==
  /\ ctor = "ok"
  /\ checkStartupPermission(envAllow, preventAutoStart) # "none"
  /\ lastGate' = Gate(TRUE, FALSE, isConnected, isConnected)
  /\ UNCHANGED <<extVars, ctorVars, clientErrorHandler, connVars, lastDisconnect, lastOp,
                 eventVars, sideVars, loggerVars>>

\* ============================================================== connection

Settled(id, result, connected, ready, entry, allFailed) ==
  [id |-> id, result |-> result, connected |-> connected, ready |-> ready,
   entry |-> entry, allFailed |-> allFailed]

\* UnifiedClient.connect on Discord: the startup gate, then
\* DiscordProvider.connect up to its await: client.login(token) is called
DiscordConnect ==
  /\ ctor = "ok" /\ platformName = "discord"
  /\ checkStartupPermission(envAllow, preventAutoStart) = "none"
  /\ lastGate' = Gate(FALSE, TRUE, isConnected, isConnected)
  /\ connectPc = "idle"
  /\ connectSeq < MaxConnects
  /\ connectSeq' = connectSeq + 1
  /\ connectPc' = "awaitLogin"
  /\ loginState' = "pending"
  /\ native' = IF native = "up" THEN "up" ELSE "connecting"
  /\ connectEntry' = isConnected
  /\ attemptsFailed' = FALSE
  /\ UNCHANGED unattendedLoss
  /\ UNCHANGED <<extVars, sideVars, loggerVars, ctorVars, clientErrorHandler, isConnected, readyPending, attempt,
                 lastError, readyEmittedFor, connectReturn, lastDisconnect, lastOp,
                 eventVars>>

\* discord.js: the gateway accepts the session; the login promise will resolve
\* and the ClientReady callback will fire, in an order the SDK decides
NativeLoginAccepted ==
  /\ platformName = "discord"
  /\ loginState = "pending"
  /\ native \in {"connecting", "up"}
  /\ loginState' = "accepted"
  /\ native' = "up"
  /\ readyPending' = connectSeq
  /\ unattendedLoss' = FALSE
  /\ UNCHANGED <<extVars, sideVars, loggerVars, lastGate, ctorVars, clientErrorHandler, isConnected, connectPc, attempt,
                 lastError, connectSeq, connectEntry, attemptsFailed, readyEmittedFor,
                 connectReturn, lastDisconnect, lastOp, eventVars>>

\* DiscordProvider.connect after its await, login resolved: connect() returns
DiscordLoginResolves ==
  /\ platformName = "discord"
  /\ loginState = "accepted"
  /\ loginState' = "none"
  /\ connectPc' = "idle"
  /\ connectReturn' = Settled(connectSeq, "ok", isConnected,
                              connectSeq \in readyEmittedFor, connectEntry, FALSE)
  /\ UNCHANGED <<extVars, sideVars, loggerVars, lastGate, ctorVars, clientErrorHandler, isConnected, native, unattendedLoss, readyPending,
                 attempt, lastError, connectSeq, connectEntry, attemptsFailed,
                 readyEmittedFor, lastDisconnect, lastOp, eventVars>>

\* DiscordProvider.connect after its await, login rejected: the catch block
DiscordLoginRejects ==
  /\ platformName = "discord"
  /\ loginState = "pending"
  /\ loginState' = "none"
  /\ connectPc' = "idle"
  /\ isConnected' = FALSE
  /\ native' = IF native = "connecting" THEN "idle" ELSE native
  /\ attemptsFailed' = TRUE
  /\ connectReturn' = Settled(connectSeq, "AuthenticationError", FALSE,
                              connectSeq \in readyEmittedFor, connectEntry, TRUE)
  /\ UNCHANGED unattendedLoss
  /\ UNCHANGED <<extVars, sideVars, loggerVars, lastGate, ctorVars, clientErrorHandler, readyPending, attempt, lastError,
                 connectSeq, connectEntry, readyEmittedFor, lastDisconnect, lastOp,
                 eventVars>>

\* the Events.ClientReady listener of DiscordProvider.setupEventListeners
DiscordClientReady ==
  /\ platformName = "discord"
  /\ readyPending # 0
  /\ native # "lost"
  /\ LET e == emitGenericEvent(providerEvents, clientEvents, Event("ready", 0)) IN
       /\ providerEvents' = e.pe
       /\ clientEvents' = e.ce
  /\ isConnected' = TRUE
  /\ readyEmittedFor' = readyEmittedFor \cup {readyPending}
  /\ readyPending' = 0
  /\ UNCHANGED <<extVars, sideVars, loggerVars, lastGate, ctorVars, clientErrorHandler, native, unattendedLoss, loginState, connectPc, attempt,
                 lastError, connectSeq, connectEntry, attemptsFailed, connectReturn,
                 lastDisconnect, lastOp, nativeSeq, pending, escaped>>

\* UnifiedClient.connect on Root: the startup gate, then RootProvider.connect
\* up to the first await: attempt 1 calls lifecycle.start
RootConnect ==
  /\ ctor = "ok" /\ platformName = "root"
  /\ checkStartupPermission(envAllow, preventAutoStart) = "none"
  /\ lastGate' = Gate(FALSE, TRUE, isConnected, isConnected)
  /\ connectPc = "idle"
  /\ connectSeq < MaxConnects
  /\ connectSeq' = connectSeq + 1
  /\ attempt' = 1
  /\ lastError' = FALSE
  /\ connectPc' = "awaitStart"
  /\ native' = IF native = "up" THEN "up" ELSE "connecting"
  /\ connectEntry' = isConnected
  /\ attemptsFailed' = FALSE
  /\ UNCHANGED unattendedLoss
  /\ UNCHANGED <<extVars, sideVars, loggerVars, ctorVars, clientErrorHandler, isConnected, loginState, readyPending,
                 readyEmittedFor, connectReturn, lastDisconnect, lastOp, eventVars>>

\* RootProvider.connect: lifecycle.start won the race; the loop breaks and the
\* final check passes
RootStartResolves ==
  /\ platformName = "root"
  /\ connectPc = "awaitStart"
  /\ LET e == emitGenericEvent(providerEvents, clientEvents, Event("ready", 0)) IN
       /\ providerEvents' = e.pe
       /\ clientEvents' = e.ce
  /\ isConnected' = TRUE
  /\ native' = "up"
  /\ lastError' = FALSE
  /\ readyEmittedFor' = readyEmittedFor \cup {connectSeq}
  /\ connectPc' = "idle"
  /\ connectReturn' = Settled(connectSeq, "ok", TRUE, TRUE, connectEntry, FALSE)
  /\ unattendedLoss' = FALSE
  /\ UNCHANGED <<extVars, sideVars, loggerVars, lastGate, ctorVars, clientErrorHandler, loginState, readyPending, attempt,
                 connectSeq, connectEntry, attemptsFailed, lastDisconnect, lastOp,
                 nativeSeq, pending, escaped>>

\* RootProvider.connect: lifecycle.start threw or the connectTimeout won the
\* race; the catch block, and after the last attempt the final check
\* `if (!this._isConnected) throw new AuthenticationError`
RootAttemptFails ==
  /\ platformName = "root"
  /\ connectPc = "awaitStart"
  /\ lastError' = TRUE
  /\ native' = IF native = "connecting" THEN "idle" ELSE native
  /\ IF attempt < maxAttempts
     THEN /\ connectPc' = "sleeping"
          /\ UNCHANGED <<connectReturn, attemptsFailed>>
     ELSE /\ connectPc' = "idle"
          /\ attemptsFailed' = TRUE
          /\ connectReturn' =
               IF ~isConnected
               THEN Settled(connectSeq, "AuthenticationError", isConnected,
                            connectSeq \in readyEmittedFor, connectEntry, TRUE)
               ELSE Settled(connectSeq, "ok", isConnected,
                            connectSeq \in readyEmittedFor, connectEntry, TRUE)
  /\ UNCHANGED unattendedLoss
  /\ UNCHANGED <<extVars, sideVars, loggerVars, lastGate, ctorVars, clientErrorHandler, isConnected, loginState, readyPending,
                 attempt, connectSeq, connectEntry, readyEmittedFor, lastDisconnect,
                 lastOp, eventVars>>

\* RootProvider.connect: sleep(reconnectDelay) is over, the next attempt starts
RootRetry ==
  /\ platformName = "root"
  /\ connectPc = "sleeping"
  /\ attempt' = attempt + 1
  /\ connectPc' = "awaitStart"
  /\ native' = IF native = "up" THEN "up" ELSE "connecting"
  /\ UNCHANGED unattendedLoss
  /\ UNCHANGED <<extVars, sideVars, loggerVars, lastGate, ctorVars, clientErrorHandler, isConnected, loginState, readyPending,
                 lastError, connectSeq, connectEntry, attemptsFailed, readyEmittedFor,
                 connectReturn, lastDisconnect, lastOp, eventVars>>

\* UnifiedClient.connect on Root App: the startup gate, then
\* RootAppProvider.connect: synchronous, no native connection to establish
RootAppConnect ==
  /\ ctor = "ok" /\ platformName = "root-app"
  /\ checkStartupPermission(envAllow, preventAutoStart) = "none"
  /\ lastGate' = Gate(FALSE, TRUE, isConnected, TRUE)
  /\ connectSeq < MaxConnects
  /\ connectSeq' = connectSeq + 1
  /\ LET e == emitGenericEvent(providerEvents, clientEvents, Event("ready", 0)) IN
       /\ providerEvents' = e.pe
       /\ clientEvents' = e.ce
  /\ isConnected' = TRUE
  /\ readyEmittedFor' = readyEmittedFor \cup {connectSeq + 1}
  /\ connectReturn' = Settled(connectSeq + 1, "ok", TRUE, TRUE, isConnected, FALSE)
  /\ UNCHANGED <<extVars, sideVars, loggerVars, ctorVars, clientErrorHandler, native, unattendedLoss, loginState, readyPending,
                 connectPc, attempt, lastError, connectEntry, attemptsFailed,
                 lastDisconnect, lastOp, nativeSeq, pending, escaped>>

\* disconnect() of the three providers.  Discord: await client.destroy(), then
\* the flag; Root: await lifecycle.stop(), then the flag; Root App: the flag.
\* teardownOk: the native teardown call returned (it cannot fail on Root App,
\* which makes none)
disconnect ==
  /\ ctor = "ok"
  /\ \E teardownOk \in BOOLEAN :
       /\ (platformName = "root-app") => teardownOk
       /\ IF teardownOk
          THEN /\ isConnected' = FALSE
               /\ native' = IF native = "idle" \/ platformName = "root-app"
                            THEN native ELSE "down"
               /\ lastDisconnect' = [called |-> TRUE, threw |-> FALSE,
                                     connectedBefore |-> isConnected,
                                     connectedAfter |-> FALSE]
          ELSE /\ UNCHANGED <<isConnected, native>>
               /\ lastDisconnect' = [called |-> TRUE, threw |-> TRUE,
                                     connectedBefore |-> isConnected,
                                     connectedAfter |-> isConnected]
  /\ unattendedLoss' = FALSE
  /\ UNCHANGED <<sideVars, loggerVars, lastGate, ctorVars, clientErrorHandler, loginState, readyPending, connectPc,
                 attempt, lastError, connectSeq, connectEntry, attemptsFailed,
                 readyEmittedFor, connectReturn, lastOp, eventVars>>

Disconnect == disconnect /\ UNCHANGED extVars

\* the native connection of a Discord or Root session is lost for good.  No
\* listener of setupEventListeners reacts to it
NativeConnectionLost ==
  /\ platformName \in {"discord", "root"}
  /\ native = "up"
  /\ native' = "lost"
  /\ unattendedLoss' = TRUE
  /\ UNCHANGED <<extVars, sideVars, loggerVars, lastGate, ctorVars, clientErrorHandler, isConnected, loginState, readyPending,
                 connectPc, attempt, lastError, connectSeq, connectEntry,
                 attemptsFailed, readyEmittedFor, connectReturn, lastDisconnect,
                 lastOp, eventVars>>

\* ============================================================== operations

\* BaseProvider.ensureConnected: TRUE when it returns, FALSE when it throws
ensureConnected(connected) == connected

Outcome(result, nativeCalled) == [result |-> result, nativeCalled |-> nativeCalled]

\* Length of an optional list of a MessageOptions bag; -1: the key is absent
ListLens == -1..MaxListLen
ContentInputs == {Undefined, "", "hello"}
BagInputs == [content : ContentInputs, embeds : ListLens, files : ListLens]

\* what the native SDK answers to a call: the entity, nothing, or a rejection
NativeAnswers == {"ok", "absent", "reject"}

\* toRootMessageOptions of the Root converters (part_008 169-198): content is
\* copied when truthy, files are checked before embeds
toRootMessageOptions_Strip(options) ==
  [error |-> "none", hasContent |-> options.content \notin {Undefined, ""}]

toRootMessageOptions(options) ==
  IF options.files > 0
  THEN [error |-> "Error: File attachments in Root require client-side upload",
        hasContent |-> options.content \notin {Undefined, ""}]
  ELSE IF options.embeds > 0
  THEN [error |-> "Error: Rich embeds are not supported by Root platform",
        hasContent |-> options.content \notin {Undefined, ""}]
  ELSE [error |-> "none", hasContent |-> options.content \notin {Undefined, ""}]

\* DiscordProvider.sendMessage .. getGuild (provider.ts 260-377)
DiscordOp(op, connected, answer) ==
  IF ~ensureConnected(connected) THEN Outcome("NotConnected", FALSE)
  ELSE IF op \in {"sendMessage", "editMessage", "deleteMessage"}
  THEN Outcome(CASE answer = "ok" -> "ok"
                 [] answer = "absent" -> "ChannelError"
                 [] OTHER -> "MessageError", TRUE)
  ELSE Outcome(IF answer = "ok" THEN "ok" ELSE "ResourceNotFoundError", TRUE)

\* RootProvider.sendMessage .. getGuild (provider.ts 1037-1062, 1116-1135,
\* 1197-1225)
RootOp(op, connected, options, answer) ==
  IF ~ensureConnected(connected) THEN Outcome("NotConnected", FALSE)
  ELSE IF op = "sendMessage"
  THEN LET r == toRootMessageOptions(options) IN
       IF r.error # "none" THEN Outcome(r.error, FALSE)
       ELSE IF ~r.hasContent THEN Outcome("Error: Message content is required", FALSE)
       ELSE Outcome(IF answer = "ok" THEN "ok" ELSE "Error: Failed to send message", TRUE)
  ELSE Outcome(CASE answer = "ok" -> "ok"
                 [] answer = "absent" -> "TypeError"
                 [] OTHER -> "NativeError", TRUE)

\* RootAppProvider.getUser (app-provider.ts 155-170) and the operations that
\* throw 'not supported in Root Apps' (245-263)
RootAppOp(op, connected, answer) ==
  IF op = "getUser"
  THEN Outcome(CASE answer = "ok" -> "ok"
                 [] answer = "absent" -> "TypeError"
                 [] OTHER -> "NativeError", TRUE)
  ELSE Outcome("Error: not supported in Root Apps", FALSE)

\* one call of the generic operation surface through the UnifiedClient proxy
Invoke ==
  /\ ctor = "ok"
  /\ \E op \in Ops, answer \in NativeAnswers, options \in BagInputs :
       LET sends == platformName = "root" /\ op = "sendMessage"
           o == CASE platformName = "discord" -> DiscordOp(op, isConnected, answer)
                  [] platformName = "root" -> RootOp(op, isConnected, options, answer)
                  [] OTHER -> RootAppOp(op, isConnected, answer)
       IN
       \* the bag only matters to Root's sendMessage
       /\ ~sends => options = [content |-> "hello", embeds |-> -1, files |-> -1]
       \* the native answer only matters when the native SDK is reached
       /\ ~o.nativeCalled => answer = "ok"
       /\ lastOp' = [op |-> op, connected |-> isConnected, result |-> o.result,
                     nativeCalled |-> o.nativeCalled, embeds |-> options.embeds,
                     files |-> options.files, content |-> options.content,
                     answer |-> answer]
  /\ UNCHANGED <<extVars, sideVars, loggerVars, lastGate, ctorVars, clientErrorHandler, connVars, lastDisconnect, eventVars>>

\* ================================================================== events

\* DiscordProvider Events.MessageCreate listener (provider.ts 81-88).
\* malformed: convertMessage throws on this native message
DiscordMessageCreate ==
  /\ platformName = "discord"
  /\ native = "up"
  /\ nativeSeq < MaxNativeEvents
  /\ nativeSeq' = nativeSeq + 1
  /\ \E malformed \in BOOLEAN :
       LET e == IF malformed
                THEN handleError(providerEvents, clientEvents, nativeSeq + 1)
                ELSE emitGenericEvent(providerEvents, clientEvents,
                                      Event("message", nativeSeq + 1))
       IN /\ providerEvents' = e.pe
          /\ clientEvents' = e.ce
          /\ escaped' = IF e.threw THEN "listener" ELSE escaped
  /\ UNCHANGED <<extVars, sideVars, loggerVars, lastGate, ctorVars, clientErrorHandler, connVars, lastDisconnect, lastOp, pending>>

\* RootProvider ChannelMessageCreated listener (provider.ts 689-700)
RootMessageCreated ==
  /\ platformName = "root"
  /\ native = "up"
  /\ nativeSeq < MaxNativeEvents
  /\ nativeSeq' = nativeSeq + 1
  /\ \E malformed \in BOOLEAN :
       LET e == IF malformed
                THEN handleError(providerEvents, clientEvents, nativeSeq + 1)
                ELSE emitGenericEvent(providerEvents, clientEvents,
                                      Event("message", nativeSeq + 1))
       IN /\ providerEvents' = e.pe
          /\ clientEvents' = e.ce
          /\ escaped' = IF e.threw THEN "listener" ELSE escaped
  /\ UNCHANGED <<extVars, sideVars, loggerVars, lastGate, ctorVars, clientErrorHandler, connVars, lastDisconnect, lastOp, pending>>

\* the Root listeners whose handler awaits a native fetch before it emits
AsyncKinds == {"ChannelCreated", "ChannelEdited", "CommunityMemberAttach", "CommunityEdited"}

\* the generic event a Root async handler emits
GenericName(kind) ==
  CASE kind = "ChannelCreated" -> "channelCreate"
    [] kind = "ChannelEdited" -> "channelUpdate"
    [] kind = "CommunityMemberAttach" -> "guildMemberAdd"
    [] OTHER -> "guildUpdate"

\* awaits of the handler: handleMemberJoined fetches the member, then the community
Fetches(kind) == IF kind = "CommunityMemberAttach" THEN 2 ELSE 1

\* RootProvider ChannelCreated / ChannelEdited / CommunityMemberAttach /
\* CommunityEdited listeners (provider.ts 800-818, 839-847, 872-880): the
\* listener starts the handler, which suspends at its first await
RootAsyncEvent ==
  /\ platformName = "root"
  /\ native = "up"
  /\ nativeSeq < MaxNativeEvents
  /\ nativeSeq' = nativeSeq + 1
  /\ \E kind \in AsyncKinds :
       pending' = pending \cup {[seq |-> nativeSeq + 1, kind |-> kind, left |-> Fetches(kind)]}
  /\ UNCHANGED <<extVars, sideVars, loggerVars, lastGate, ctorVars, clientErrorHandler, connVars, lastDisconnect, lastOp,
                 providerEvents, clientEvents, escaped>>

\* handleChannelCreated .. handleCommunityEdited (provider.ts 888-924): an
\* awaited native fetch resolves; after the last one the handler emits
RootFetchResolves ==
  /\ platformName = "root"
  /\ \E h \in pending :
       IF h.left > 1
       THEN /\ pending' = (pending \ {h}) \cup {[h EXCEPT !.left = h.left - 1]}
            /\ UNCHANGED <<providerEvents, clientEvents>>
       ELSE LET e == emitGenericEvent(providerEvents, clientEvents,
                                      Event(GenericName(h.kind), h.seq))
            IN /\ pending' = pending \ {h}
               /\ providerEvents' = e.pe
               /\ clientEvents' = e.ce
  /\ UNCHANGED <<extVars, sideVars, loggerVars, lastGate, ctorVars, clientErrorHandler, connVars, lastDisconnect, lastOp,
                 nativeSeq, escaped>>

\* an awaited native fetch rejects: the .catch of the listener calls handleError
RootFetchRejects ==
  /\ platformName = "root"
  /\ \E h \in pending :
       LET e == handleError(providerEvents, clientEvents, h.seq) IN
       /\ pending' = pending \ {h}
       /\ providerEvents' = e.pe
       /\ clientEvents' = e.ce
       /\ escaped' = IF e.threw THEN "rejection" ELSE escaped
  /\ UNCHANGED <<extVars, sideVars, loggerVars, lastGate, ctorVars, clientErrorHandler, connVars, lastDisconnect, lastOp, nativeSeq>>

\* RootAppProvider 'theme.update' listener (app-provider.ts 68-78)
ThemeUpdate ==
  /\ platformName = "root-app"
  /\ nativeSeq < MaxNativeEvents
  /\ nativeSeq' = nativeSeq + 1
  /\ LET e == emitGenericEvent(providerEvents, clientEvents,
                               Event("themeChange", nativeSeq + 1))
     IN /\ providerEvents' = e.pe
        /\ clientEvents' = e.ce
  /\ UNCHANGED <<extVars, sideVars, loggerVars, lastGate, ctorVars, clientErrorHandler, connVars, lastDisconnect, lastOp,
                 pending, escaped>>

\* ===================================================== color normalization

\* JavaScript values of the types a color can have
Undef == [type |-> "undefined"]
NaN == [type |-> "NaN"]
Num(n) == [type |-> "number", num |-> n]
Str(chars) == [type |-> "string", str |-> chars]

\* base.ts 196: padStart(6, '0')
HexWidth == 6

\* the characters hex color strings are drawn from: digits and letters of
\* both cases
HexChars == {"0", "9", "a", "F"}
HexStrings == [1..HexWidth -> HexChars]

\* value of a character as a base-16 digit, as parseInt reads it (-1: none)
DigitValue(c) ==
  CASE c = "0" -> 0 [] c = "1" -> 1 [] c = "2" -> 2 [] c = "3" -> 3
    [] c = "4" -> 4 [] c = "5" -> 5 [] c = "6" -> 6 [] c = "7" -> 7
    [] c = "8" -> 8 [] c = "9" -> 9
    [] c \in {"a", "A"} -> 10 [] c \in {"b", "B"} -> 11 [] c \in {"c", "C"} -> 12
    [] c \in {"d", "D"} -> 13 [] c \in {"e", "E"} -> 14 [] c \in {"f", "F"} -> 15
    [] OTHER -> -1

\* the digits Number.prototype.toString(16) writes
LowerDigits == <<"0", "1", "2", "3", "4", "5", "6", "7", "8", "9",
                 "a", "b", "c", "d", "e", "f">>

RECURSIVE parseDigits(_, _, _)
parseDigits(chars, i, acc) ==
  IF i > Len(chars) \/ DigitValue(chars[i]) < 0
  THEN acc
  ELSE parseDigits(chars, i + 1, acc * 16 + DigitValue(chars[i]))

\* parseInt(chars, 16): the longest prefix of hex digits, NaN when it is empty
parseInt16(chars) ==
  IF Len(chars) = 0 \/ DigitValue(chars[1]) < 0
  THEN NaN
  ELSE Num(parseDigits(chars, 1, 0))

\* String.prototype.replace('#', ''): the first '#' is removed
RECURSIVE replaceHash(_)
replaceHash(chars) ==
  IF chars = <<>> THEN <<>>
  ELSE IF Head(chars) = "#" THEN Tail(chars)
  ELSE <<Head(chars)>> \o replaceHash(Tail(chars))

\* Number.prototype.toString(16) of a non-negative integer
RECURSIVE toString16(_)
toString16(n) ==
  IF n < 16 THEN <<LowerDigits[n + 1]>>
  ELSE toString16(n \div 16) \o <<LowerDigits[(n % 16) + 1]>>

\* String.prototype.padStart(width, '0')
RECURSIVE padStart(_, _)
padStart(chars, width) ==
  IF Len(chars) >= width THEN chars ELSE padStart(<<"0">> \o chars, width)

\* String.prototype.startsWith('#')
startsWithHash(chars) == Len(chars) > 0 /\ chars[1] = "#"

\* BaseProvider.normalizeColor
normalizeColor(color) ==
  IF color.type = "undefined" THEN Undef
  ELSE IF color.type = "string" THEN parseInt16(replaceHash(color.str))
  ELSE color

\* BaseProvider.normalizeColorToHex
normalizeColorToHex(color) ==
  IF color.type = "undefined" THEN Undef
  ELSE IF color.type = "number"
  THEN Str(<<"#">> \o padStart(toString16(color.num), HexWidth))
  ELSE IF startsWithHash(color.str) THEN color ELSE Str(<<"#">> \o color.str)

\* the integer a string of hex digits denotes
RECURSIVE HexValue(_)
HexValue(chars) ==
  IF chars = <<>> THEN 0
  ELSE 16 * HexValue(SubSeq(chars, 1, Len(chars) - 1)) + DigitValue(chars[Len(chars)])

\* the integers normalization is applied to: what the strings denote
ColorNumbers == {HexValue(h) : h \in HexStrings}

\* the colors handed to the normalization functions
ColorInputs ==
  {[kind |-> "string", h |-> h, applied |-> FALSE] : h \in HexStrings}
    \cup {[kind |-> "number", n |-> n, applied |-> FALSE] : n \in ColorNumbers}

ColorInit ==
  /\ MainInit
  /\ ExtInit
  /\ envAllow = Undefined
  /\ preventAutoStart = Undefined
  /\ colorCase \in ColorInputs
  /\ embedCase = NoEmbedCase
  /\ loggerLevel = -1
  /\ childLoggers = <<>>
  /\ lastEmit = NoEmit

\* a caller normalizes the two string forms of a color and the integer it denotes
NormalizeString ==
  /\ colorCase.kind = "string" /\ ~colorCase.applied
  /\ LET h == colorCase.h IN
       colorCase' = [kind |-> "string", h |-> h, applied |-> TRUE,
                     plain |-> normalizeColor(Str(h)),
                     hashed |-> normalizeColor(Str(<<"#">> \o h)),
                     hexPlain |-> normalizeColorToHex(Str(h)),
                     hexHashed |-> normalizeColorToHex(Str(<<"#">> \o h)),
                     hexNumber |-> normalizeColorToHex(Num(HexValue(h)))]
  /\ UNCHANGED <<extVars, mainVars, envAllow, preventAutoStart, embedCase, loggerLevel,
                 childLoggers, lastEmit>>

\* a caller converts an integer color to the hex form and back
NormalizeNumber ==
  /\ colorCase.kind = "number" /\ ~colorCase.applied
  /\ LET n == colorCase.n IN
       colorCase' = [kind |-> "number", n |-> n, applied |-> TRUE,
                     hex |-> normalizeColorToHex(Num(n)),
                     back |-> normalizeColor(normalizeColorToHex(Num(n)))]
  /\ UNCHANGED <<extVars, mainVars, envAllow, preventAutoStart, embedCase, loggerLevel,
                 childLoggers, lastEmit>>

ColorNext ==
  \/ NormalizeString
  \/ NormalizeNumber

ColorSpec == ColorInit /\ [][ColorNext]_vars

\* ======================================================== embed conversion

\* an optional property: absent, or present with a value
None == [set |-> FALSE]
Some(v) == [set |-> TRUE, v |-> v]

MaxFields == 1            \* longest fields list of an embed

\* JavaScript truthiness of an optional string and of a color
TruthyString(v) == v \notin {Undefined, ""}
TruthyColor(c) ==
  CASE c.type = "number" -> c.num # 0
    [] c.type = "string" -> Len(c.str) > 0
    [] OTHER -> FALSE

\* the generic embeds handed to the converter (types/embeds.ts 8-91)
EmbedColors ==
  {Undef, Num(0), Num(255), Str(<<"#", "0", "0", "0", "0", "0", "0">>),
   Str(<<"#", "F", "F", "0", "0", "0", "0">>), Str(<<"0", "0", "f", "f", "0", "0">>)}
EmbedFields == [name : {"n"}, value : {"v"}, inline : {None, Some(TRUE), Some(FALSE)}]
EmbedFieldLists ==
  {None} \cup {Some(l) : l \in UNION {[1..k -> EmbedFields] : k \in 0..MaxFields}}
EmbedFooters == {None} \cup {Some([text |-> "f", iconUrl |-> i]) : i \in {Undefined, "icon"}}
EmbedImages == {None, Some([url |-> "img", width |-> 64, height |-> 32])}
EmbedAuthors ==
  {None, Some([name |-> "a", iconUrl |-> Undefined, url |-> Undefined]),
   Some([name |-> "a", iconUrl |-> "icon", url |-> "link"])}
\* Date values, as milliseconds since the epoch
EmbedDates == {None, Some(0), Some(1000)}
Embeds ==
  [title : {Undefined, "t"}, description : {Undefined, "d"}, url : {Undefined, "u"},
   color : EmbedColors, fields : EmbedFieldLists, footer : EmbedFooters,
   image : EmbedImages, thumbnail : EmbedImages, author : EmbedAuthors,
   timestamp : EmbedDates]

\* Date.prototype.toISOString and new Date(isoString): the ISO form keeps
\* the milliseconds
toISOString(ms) == [iso |-> ms]
newDate(text) == text.iso

\* toDiscordEmbed, read through EmbedBuilder.toJSON(): the API embed the
\* builder holds after the setters the converter calls
toDiscordEmbed(embed) ==
  [title |-> IF TruthyString(embed.title) THEN embed.title ELSE Undefined,
   description |-> IF TruthyString(embed.description) THEN embed.description ELSE Undefined,
   url |-> IF TruthyString(embed.url) THEN embed.url ELSE Undefined,
   color |-> IF TruthyColor(embed.color)
             THEN IF embed.color.type = "string"
                  THEN parseInt16(replaceHash(embed.color.str))
                  ELSE embed.color
             ELSE Undef,
   fields |-> IF embed.fields.set /\ Len(embed.fields.v) > 0 THEN embed.fields ELSE None,
   footer |-> IF embed.footer.set
              THEN Some([text |-> embed.footer.v.text, icon_url |-> embed.footer.v.iconUrl])
              ELSE None,
   image |-> IF embed.image.set THEN Some([url |-> embed.image.v.url]) ELSE None,
   thumbnail |-> IF embed.thumbnail.set THEN Some([url |-> embed.thumbnail.v.url]) ELSE None,
   author |-> IF embed.author.set
              THEN Some([name |-> embed.author.v.name, icon_url |-> embed.author.v.iconUrl,
                         url |-> embed.author.v.url])
              ELSE None,
   timestamp |-> IF embed.timestamp.set THEN Some(toISOString(embed.timestamp.v)) ELSE None]

\* toGenericEmbed of an API embed
toGenericEmbed(discordEmbed) ==
  [title |-> IF TruthyString(discordEmbed.title) THEN discordEmbed.title ELSE Undefined,
   description |-> IF TruthyString(discordEmbed.description)
                   THEN discordEmbed.description ELSE Undefined,
   url |-> IF TruthyString(discordEmbed.url) THEN discordEmbed.url ELSE Undefined,
   color |-> IF TruthyColor(discordEmbed.color) THEN discordEmbed.color ELSE Undef,
   fields |-> IF discordEmbed.fields.set /\ Len(discordEmbed.fields.v) > 0
              THEN Some([i \in 1..Len(discordEmbed.fields.v) |->
                           [name |-> discordEmbed.fields.v[i].name,
                            value |-> discordEmbed.fields.v[i].value,
                            inline |-> discordEmbed.fields.v[i].inline]])
              ELSE None,
   footer |-> IF discordEmbed.footer.set
              THEN Some([text |-> discordEmbed.footer.v.text,
                         iconUrl |-> discordEmbed.footer.v.icon_url])
              ELSE None,
   image |-> IF discordEmbed.image.set
             THEN Some([url |-> discordEmbed.image.v.url, width |-> Undefined,
                        height |-> Undefined])
             ELSE None,
   thumbnail |-> IF discordEmbed.thumbnail.set
                 THEN Some([url |-> discordEmbed.thumbnail.v.url, width |-> Undefined,
                            height |-> Undefined])
                 ELSE None,
   author |-> IF discordEmbed.author.set
              THEN Some([name |-> discordEmbed.author.v.name,
                         iconUrl |-> discordEmbed.author.v.icon_url,
                         url |-> discordEmbed.author.v.url])
              ELSE None,
   timestamp |-> IF discordEmbed.timestamp.set
                 THEN Some(newDate(discordEmbed.timestamp.v)) ELSE None]

EmbedInit ==
  /\ MainInit
  /\ ExtInit
  /\ envAllow = Undefined
  /\ preventAutoStart = Undefined
  /\ colorCase = NoColorCase
  /\ embedCase \in {[kind |-> "embed", applied |-> FALSE, e |-> e] : e \in Embeds}
  /\ loggerLevel = -1
  /\ childLoggers = <<>>
  /\ lastEmit = NoEmit

\* a generic embed is converted to a Discord embed and back
ConvertEmbed ==
  /\ embedCase.kind = "embed" /\ ~embedCase.applied
  /\ embedCase' = [kind |-> "embed", applied |-> TRUE, e |-> embedCase.e,
                   back |-> toGenericEmbed(toDiscordEmbed(embedCase.e))]
  /\ UNCHANGED <<extVars, mainVars, envAllow, preventAutoStart, colorCase, loggerLevel,
                 childLoggers, lastEmit>>

EmbedNext == ConvertEmbed

EmbedSpec == EmbedInit /\ [][EmbedNext]_vars

\* ========================================================== logger actions

\* the application calls getLogger() for the first time
GetLogger ==
  /\ loggerLevel = -1
  /\ \E production \in BOOLEAN : loggerLevel' = getInstance(loggerLevel, production)
  /\ UNCHANGED <<extVars, mainVars, sideVars, childLoggers>>

\* getLogger().setLevel(x): UnifiedClient.setLogLevel(x), and the constructor's
\* options.logLevel before the provider is created
SetLogLevel ==
  /\ loggerLevel # -1
  /\ \E x \in LogLevels :
       LET r == setLevel(childLoggers, x) IN
       /\ loggerLevel' = r.level
       /\ childLoggers' = r.children
  /\ UNCHANGED <<extVars, mainVars, sideVars>>

\* the application creates a child logger of the singleton
CreateChild ==
  /\ loggerLevel # -1
  /\ Cardinality({i \in DOMAIN childLoggers : childLoggers[i].owner = "app"}) < MaxChildren
  /\ childLoggers' = Append(childLoggers, child(loggerLevel, "app"))
  /\ UNCHANGED <<extVars, mainVars, sideVars, loggerLevel>>

\* setLevel(x) on a child logger
ChildSetLevel ==
  /\ \E i \in DOMAIN childLoggers, x \in LogLevels :
       childLoggers' = [childLoggers EXCEPT ![i] = [@ EXCEPT !.level = x, !.own = TRUE]]
  /\ UNCHANGED <<extVars, mainVars, sideVars, loggerLevel>>

LoggerNext ==
  \/ GetLogger
  \/ Constructor
  \/ SetLogLevel
  \/ CreateChild
  \/ ChildSetLevel

\* ========================================================== event payloads

\* what a listener or an operation hands over: null, or an entity with its
\* platform property ("absent" when the object has none).  version tells a
\* message before an edit from the message after it
Null == [entity |-> "null"]
Entity(kind, platform) == [entity |-> kind, platform |-> platform]
MessageEntity(platform, version) ==
  [entity |-> "Message", platform |-> platform, version |-> version]

\* Discord converters (discord provider.ts 486-642)
toGenericMessage(version) == MessageEntity("discord", version)
toGenericUser == Entity("User", "discord")
toGenericChannel == Entity("Channel", "discord")
toGenericGuild == Entity("Guild", "discord")
toGenericGuildMember == Entity("GuildMember", "absent")

\* Root converters (part_008 26-141)
convertMessageToGeneric(version) == MessageEntity("root", version)
convertUserToGeneric == Entity("User", "root")
convertChannelToGeneric == Entity("Channel", "root")
convertGuildToGeneric == Entity("Guild", "root")

\* the operations that return an entity, per provider
ReturningOps(provider) ==
  IF provider = "root-app" THEN {"getUser"} ELSE Ops \ {"deleteMessage"}

\* the entity a successful operation returns
ReturnedEntity(provider, op) ==
  CASE provider = "discord" ->
         (CASE op \in {"sendMessage", "editMessage"} -> toGenericMessage("after")
            [] op = "getUser" -> toGenericUser
            [] op = "getChannel" -> toGenericChannel
            [] OTHER -> toGenericGuild)
    [] provider = "root" ->
         (CASE op \in {"sendMessage", "editMessage"} -> convertMessageToGeneric("after")
            [] op = "getUser" -> convertUserToGeneric
            [] op = "getChannel" -> convertChannelToGeneric
            [] OTHER -> convertGuildToGeneric)
    [] OTHER -> Entity("User", "root-app")

\* frame of a listener that emits
listenerFrame == <<msgVars, caseVars, wsVars, lastNative, disconnectedAt, ctorVars, clientErrorHandler, connVars, lastDisconnect, lastOp, pending,
                   lastGate, loggerVars, envAllow, preventAutoStart, colorCase, embedCase>>

\* emitGenericEvent(name, ...args) from a native listener
EmitPayload(name, args) ==
  LET e == emitGenericEvent(providerEvents, clientEvents, Event(name, nativeSeq + 1)) IN
  /\ providerEvents' = e.pe
  /\ clientEvents' = e.ce
  /\ escaped' = IF e.threw THEN "listener" ELSE escaped
  /\ lastEmit' = [name |-> name, platform |-> platformName, args |-> args]

\* the catch block of a listener: handleError(error, context)
EmitError == EmitPayload("error", <<[entity |-> "Error"]>>)

\* the listener returns without emitting
EmitNothing == UNCHANGED <<providerEvents, clientEvents, escaped, lastEmit>>

\* DiscordProvider Events.MessageUpdate listener (provider.ts 90-99), called
\* with an old and a new message that are partial or not; malformed: a
\* conversion of the listener throws
onMessageUpdate_OldConverted(oldPartial, newPartial, malformed) ==
  /\ platformName = "discord" /\ native = "up"
  /\ nativeSeq < MaxNativeEvents
  /\ nativeSeq' = nativeSeq + 1
  /\ IF newPartial THEN EmitNothing
     ELSE IF malformed THEN EmitError
     ELSE EmitPayload("messageUpdate",
                      <<toGenericMessage("before"), toGenericMessage("after")>>)

onMessageUpdate(oldPartial, newPartial, malformed) ==
  /\ platformName = "discord" /\ native = "up"
  /\ nativeSeq < MaxNativeEvents
  /\ nativeSeq' = nativeSeq + 1
  /\ IF newPartial THEN EmitNothing
     ELSE IF malformed THEN EmitError
     ELSE EmitPayload("messageUpdate",
                      <<IF oldPartial THEN Null ELSE toGenericMessage("before"),
                        toGenericMessage("after")>>)

DiscordMessageUpdate ==
  /\ \E oldPartial \in BOOLEAN, newPartial \in BOOLEAN, malformed \in BOOLEAN :
       onMessageUpdate(oldPartial, newPartial, malformed)
  /\ UNCHANGED listenerFrame

\* DiscordProvider Events.MessageDelete listener (provider.ts 101-109)
onMessageDelete(partial, malformed) ==
  /\ platformName = "discord" /\ native = "up"
  /\ nativeSeq < MaxNativeEvents
  /\ nativeSeq' = nativeSeq + 1
  /\ IF partial THEN EmitNothing
     ELSE IF malformed THEN EmitError
     ELSE EmitPayload("messageDelete", <<toGenericMessage("before")>>)

DiscordMessageDelete ==
  /\ \E partial \in BOOLEAN : onMessageDelete(partial, FALSE)
  /\ UNCHANGED listenerFrame

\* DiscordProvider Events.ChannelDelete listener (provider.ts 131-138)
DiscordChannelDelete ==
  /\ platformName = "discord" /\ native = "up"
  /\ nativeSeq < MaxNativeEvents
  /\ nativeSeq' = nativeSeq + 1
  /\ EmitPayload("channelDelete", <<toGenericChannel>>)
  /\ UNCHANGED listenerFrame

\* DiscordProvider Events.GuildMemberAdd and GuildMemberRemove listeners
\* (provider.ts 169-187)
onGuildMember(name, partial, malformed) ==
  /\ platformName = "discord" /\ native = "up"
  /\ nativeSeq < MaxNativeEvents
  /\ nativeSeq' = nativeSeq + 1
  /\ IF partial THEN EmitNothing
     ELSE IF malformed THEN EmitError
     ELSE EmitPayload(name, <<toGenericGuildMember>>)

DiscordGuildMember ==
  /\ \E name \in {"guildMemberAdd", "guildMemberRemove"}, partial \in BOOLEAN :
       onGuildMember(name, partial, FALSE)
  /\ UNCHANGED listenerFrame

\* DiscordProvider Events.GuildMemberUpdate listener (provider.ts 189-199)
onGuildMemberUpdate(oldPartial, newPartial, malformed) ==
  /\ platformName = "discord" /\ native = "up"
  /\ nativeSeq < MaxNativeEvents
  /\ nativeSeq' = nativeSeq + 1
  /\ IF oldPartial \/ newPartial THEN EmitNothing
     ELSE IF malformed THEN EmitError
     ELSE EmitPayload("guildMemberUpdate", <<toGenericGuildMember, toGenericGuildMember>>)

\* RootProvider ChannelMessageEdited listener (provider.ts 703-713)
RootMessageEdited ==
  /\ platformName = "root" /\ native = "up"
  /\ nativeSeq < MaxNativeEvents
  /\ nativeSeq' = nativeSeq + 1
  /\ \E malformed \in BOOLEAN :
       IF malformed THEN EmitError
       ELSE LET message == convertMessageToGeneric("after") IN
            EmitPayload("messageUpdate", <<message, message>>)
  /\ UNCHANGED listenerFrame

\* RootProvider ChannelMessageDeleted listener (provider.ts 716-725):
\* the payload is { id: event.id }
RootMessageDeleted ==
  /\ platformName = "root" /\ native = "up"
  /\ nativeSeq < MaxNativeEvents
  /\ nativeSeq' = nativeSeq + 1
  /\ EmitPayload("messageDelete", <<MessageEntity("absent", "before")>>)
  /\ UNCHANGED listenerFrame

\* RootProvider ChannelDeleted listener (provider.ts 820-837)
RootChannelDeleted ==
  /\ platformName = "root" /\ native = "up"
  /\ nativeSeq < MaxNativeEvents
  /\ nativeSeq' = nativeSeq + 1
  /\ EmitPayload("channelDelete", <<Entity("Channel", "root")>>)
  /\ UNCHANGED listenerFrame

\* RootProvider CommunityMemberDetach listener (provider.ts 849-869)
RootMemberDetach ==
  /\ platformName = "root" /\ native = "up"
  /\ nativeSeq < MaxNativeEvents
  /\ nativeSeq' = nativeSeq + 1
  /\ EmitPayload("guildMemberRemove", <<Entity("GuildMember", "root")>>)
  /\ UNCHANGED listenerFrame

\* the entities providers hand over
PayloadNext ==
  \/ Constructor
  \/ DiscordConnect
  \/ NativeLoginAccepted
  \/ DiscordLoginResolves
  \/ DiscordClientReady
  \/ RootConnect
  \/ RootStartResolves
  \/ RootAppConnect
  \/ DiscordMessageUpdate
  \/ DiscordMessageDelete
  \/ DiscordChannelDelete
  \/ DiscordGuildMember
  \/ RootMessageEdited
  \/ RootMessageDeleted
  \/ RootChannelDeleted
  \/ RootMemberDetach

\* ===================================================== messages in hand

MessageContents == {"first", "second"}
MessageOps == {"reply", "edit", "delete", "react"}

\* a native message object of either SDK
NativeMessage(id, content) == [kind |-> "message", id |-> id, content |-> content]

\* provider.convertMessage: the converters build a fresh object literal and
\* copy the content string into it
convertMessage(platform, nativeMsg) ==
  [kind |-> "message", platform |-> platform, id |-> nativeMsg.id,
   content |-> nativeMsg.content]

\* how a method of a generic Message settles: the Message object afterwards,
\* the native message afterwards, and what the caller got
MethodResult(original, nativeMsg, result, nativeCalled, returned) ==
  [original |-> original, native |-> nativeMsg, result |-> result,
   nativeCalled |-> nativeCalled, returned |-> returned]

DiscordMessageMethod_InPlace(op, message, nativeMsg, content, answer) ==
  IF answer = "reject"
  THEN MethodResult(message, nativeMsg, "native error", TRUE, Null)
  ELSE CASE op = "edit" ->
              LET edited == [nativeMsg EXCEPT !.content = content]
              IN MethodResult([message EXCEPT !.content = content], edited, "ok", TRUE,
                              [message EXCEPT !.content = content])
         [] op = "reply" ->
              MethodResult(message, nativeMsg, "ok", TRUE,
                           convertMessage("discord", NativeMessage(nativeMsg.id + 1, content)))
         [] OTHER -> MethodResult(message, nativeMsg, "ok", TRUE, Null)

\* reply, delete, edit and react of a Message built by the Discord
\* toGenericMessage: each calls the method of the native discord.js message
\* it closes over; discord.js patches that native message on an edit
DiscordMessageMethod(op, message, nativeMsg, content, answer) ==
  IF answer = "reject"
  THEN MethodResult(message, nativeMsg, "native error", TRUE, Null)
  ELSE CASE op = "edit" ->
              LET edited == [nativeMsg EXCEPT !.content = content]
              IN MethodResult(message, edited, "ok", TRUE, convertMessage("discord", edited))
         [] op = "reply" ->
              MethodResult(message, nativeMsg, "ok", TRUE,
                           convertMessage("discord", NativeMessage(nativeMsg.id + 1, content)))
         [] OTHER -> MethodResult(message, nativeMsg, "ok", TRUE, Null)

\* reply, delete, edit and react of a Message built by the Root
\* convertMessageToGeneric: each goes through the provider's sendMessage,
\* deleteMessage, editMessage or reactToMessage, which call ensureConnected
RootMessageMethod(op, message, nativeMsg, connected, content, answer) ==
  IF ~ensureConnected(connected)
  THEN MethodResult(message, nativeMsg, "not connected", FALSE, Null)
  ELSE IF answer = "reject"
  THEN MethodResult(message, nativeMsg, "native error", TRUE, Null)
  ELSE CASE op = "edit" ->
              MethodResult(message, nativeMsg, "ok", TRUE,
                           convertMessage("root", NativeMessage(nativeMsg.id, content)))
         [] op = "reply" ->
              MethodResult(message, nativeMsg, "ok", TRUE,
                           convertMessage("root", NativeMessage(nativeMsg.id + 1, content)))
         [] OTHER -> MethodResult(message, nativeMsg, "ok", TRUE, Null)

\* a messageCreate / ChannelMessageCreated listener hands a generic Message
\* to the caller, who keeps it
ReceiveMessage ==
  /\ platformName \in {"discord", "root"}
  /\ native = "up"
  /\ heldMessage.kind = "none"
  /\ \E content \in MessageContents :
       /\ nativeMessage' = NativeMessage(1, content)
       /\ heldMessage' = convertMessage(platformName, NativeMessage(1, content))
  /\ UNCHANGED <<mainVars, sideVars, loggerVars, disconnectedAt, caseVars, wsVars, lastNative, lastMessageOp>>

\* the caller invokes a method of the Message it holds
MessageMethod ==
  /\ heldMessage.kind = "message"
  /\ \E op \in MessageOps, content \in MessageContents, answer \in {"ok", "reject"} :
       LET r == IF platformName = "discord"
                THEN DiscordMessageMethod(op, heldMessage, nativeMessage, content, answer)
                ELSE RootMessageMethod(op, heldMessage, nativeMessage, isConnected, content,
                                       answer)
       IN /\ heldMessage' = r.original
          /\ nativeMessage' = r.native
          /\ lastMessageOp' = [op |-> op, platform |-> platformName,
                               connected |-> isConnected, result |-> r.result,
                               nativeCalled |-> r.nativeCalled, content |-> content,
                               before |-> heldMessage, returned |-> r.returned]
  /\ UNCHANGED <<mainVars, sideVars, loggerVars, disconnectedAt, caseVars, wsVars, lastNative>>

\* a caller keeps a received Message and uses it, also after disconnect()
MessageNext ==
  \/ Constructor
  \/ DiscordConnect
  \/ NativeLoginAccepted
  \/ DiscordLoginResolves
  \/ DiscordClientReady
  \/ RootConnect
  \/ RootStartResolves
  \/ Disconnect
  \/ ReceiveMessage
  \/ MessageMethod

\* ================================================ Root sendMessage, all keys

\* MessageOptions (types/embeds.ts 96-117): every key is optional
MessageOptions ==
  [content : ContentInputs, embeds : ListLens, files : ListLens,
   tts : {Undefined, "boolean false", "boolean true"}, components : ListLens,
   ephemeral : {Undefined, "boolean false", "boolean true"}, replyTo : {Undefined, "m1"}]

\* the generic features a bag asks for
Features(options) ==
  {f \in {"content", "embeds", "files", "tts", "components", "ephemeral", "replyTo"} :
     CASE f = "content" -> options.content \notin {Undefined, ""}
       [] f = "embeds" -> options.embeds > 0
       [] f = "files" -> options.files > 0
       [] f = "tts" -> options.tts = "boolean true"
       [] f = "components" -> options.components > 0
       [] f = "ephemeral" -> options.ephemeral = "boolean true"
       [] OTHER -> options.replyTo # Undefined}

\* the argument of client.community.channelMessages.create in
\* RootProvider.sendMessage: { channelId, ...rootOptions }, and rootOptions
\* has no key but content
createRequest(options) ==
  IF toRootMessageOptions(options).hasContent THEN {"content"} ELSE {}

BagInit ==
  /\ MainInit
  /\ MsgInit /\ WsInit /\ lastNative = NoNative /\ disconnectedAt = -1
  /\ httpCase = NoCase /\ channelCase = NoCase /\ opCase = NoCase
  /\ bagCase \in {[kind |-> "bag", applied |-> FALSE, options |-> o] : o \in MessageOptions}
  /\ envAllow = Undefined
  /\ preventAutoStart = Undefined
  /\ colorCase = NoColorCase
  /\ embedCase = NoEmbedCase
  /\ loggerLevel = -1
  /\ childLoggers = <<>>
  /\ lastEmit = NoEmit

\* a connected RootProvider is asked to send the bag
RootSendBag ==
  /\ bagCase.kind = "bag" /\ ~bagCase.applied
  /\ \E answer \in {"ok", "reject"} :
       LET r == RootOp("sendMessage", TRUE, bagCase.options, answer)
       IN bagCase' = [kind |-> "bag", applied |-> TRUE, options |-> bagCase.options,
                      result |-> r.result, nativeCalled |-> r.nativeCalled,
                      request |-> IF r.nativeCalled THEN createRequest(bagCase.options)
                                  ELSE {}]
  /\ UNCHANGED <<mainVars, sideVars, loggerVars, disconnectedAt, msgVars, wsVars, lastNative, httpCase,
                 channelCase, opCase>>

BagNext == RootSendBag

BagSpec == BagInit /\ [][BagNext]_vars

\* ======================================================= Root HTTP client

HttpMethods == {"GET", "POST", "PUT", "PATCH", "DELETE"}
HttpStatuses == {200, 204, 400, 401, 403, 404, 429, 500}
\* what fetch() gives: a response with a status and a Retry-After header,
\* or (status 0) a rejection with a network error
HttpResponses ==
  [status : HttpStatuses \cup {0}, retryAfter : {Undefined, "30"}, jsonOk : BOOLEAN]

Thrown(class, retryAfter) == [class |-> class, retryAfter |-> retryAfter]

\* RootHTTPClient.handleErrorResponse: the error it throws
handleErrorResponse(response) ==
  CASE response.status \in {401, 403} -> Thrown("AuthenticationError", "none")
    [] response.status = 404 -> Thrown("ResourceNotFoundError", "none")
    [] response.status = 429 ->
         Thrown("MessageError",
                IF response.retryAfter = Undefined THEN "unknown" ELSE response.retryAfter)
    [] OTHER -> Thrown("MessageError", "none")

\* RootHTTPClient.request: the whole body is inside one try block whose catch
\* replaces every Error by a MessageError quoting its message
request(response) ==
  LET inner == IF response.status = 0 THEN Thrown("TypeError", "none")
               ELSE IF response.status \notin {200, 204} THEN handleErrorResponse(response)
               ELSE IF response.status = 204 THEN Thrown("none", "none")
               ELSE IF ~response.jsonOk THEN Thrown("SyntaxError", "none")
               ELSE Thrown("none", "none")
  IN IF inner.class = "none"
     THEN [outcome |-> "resolved", class |-> "none", retryAfter |-> "none",
           thrownInside |-> "none"]
     ELSE [outcome |-> "rejected", class |-> "MessageError", retryAfter |-> inner.retryAfter,
           thrownInside |-> inner.class]

HttpInit ==
  /\ MainInit
  /\ MsgInit /\ WsInit /\ lastNative = NoNative /\ disconnectedAt = -1
  /\ bagCase = NoCase /\ channelCase = NoCase /\ opCase = NoCase
  /\ httpCase \in {[kind |-> "http", applied |-> FALSE, method |-> m, response |-> r] :
                     m \in HttpMethods, r \in HttpResponses}
  /\ envAllow = Undefined
  /\ preventAutoStart = Undefined
  /\ colorCase = NoColorCase
  /\ embedCase = NoEmbedCase
  /\ loggerLevel = -1
  /\ childLoggers = <<>>
  /\ lastEmit = NoEmit

\* get / post / put / patch / delete: each returns this.request(...)
HttpRequest ==
  /\ httpCase.kind = "http" /\ ~httpCase.applied
  /\ LET r == request(httpCase.response)
     IN httpCase' = [kind |-> "http", applied |-> TRUE, method |-> httpCase.method,
                     response |-> httpCase.response, outcome |-> r.outcome,
                     class |-> r.class, retryAfter |-> r.retryAfter,
                     thrownInside |-> r.thrownInside]
  /\ UNCHANGED <<mainVars, sideVars, loggerVars, disconnectedAt, msgVars, wsVars, lastNative, bagCase,
                 channelCase, opCase>>

HttpNext == HttpRequest

HttpSpec == HttpInit /\ [][HttpNext]_vars

\* ================================================ Discord messaging calls

MessagingOps == {"sendMessage", "editMessage", "deleteMessage"}
\* what client.channels.fetch gives: a text channel, nothing, a channel that
\* is not text-based, a text-based channel without a send method, or a
\* rejection
FetchedChannels == {"text", "absent", "nontext", "nosend", "reject"}

Settles(result, acted) == [result |-> result, acted |-> acted]

DiscordMessaging_WrapAll(op, connected, channel, answer) ==
  IF ~ensureConnected(connected) THEN Settles("NotConnected", FALSE)
  ELSE IF channel = "reject" THEN Settles("MessageError", FALSE)
  ELSE IF channel \in {"absent", "nontext"} THEN Settles("MessageError", FALSE)
  ELSE IF op = "sendMessage" /\ channel = "nosend" THEN Settles("MessageError", FALSE)
  ELSE IF op # "sendMessage" /\ answer = "no message" THEN Settles("MessageError", FALSE)
  ELSE IF answer = "reject" THEN Settles("MessageError", TRUE)
  ELSE Settles("ok", TRUE)

\* DiscordProvider.sendMessage, editMessage and deleteMessage: ensureConnected
\* runs before the try block; inside it the channel is fetched and checked,
\* only sendMessage checks for a send method, editMessage and deleteMessage
\* fetch the message first; the catch passes a ChannelError on and wraps
\* everything else in a MessageError
DiscordMessaging(op, connected, channel, answer) ==
  IF ~ensureConnected(connected) THEN Settles("NotConnected", FALSE)
  ELSE IF channel = "reject" THEN Settles("MessageError", FALSE)
  ELSE IF channel \in {"absent", "nontext"} THEN Settles("ChannelError", FALSE)
  ELSE IF op = "sendMessage" /\ channel = "nosend" THEN Settles("ChannelError", FALSE)
  ELSE IF op # "sendMessage" /\ answer = "no message" THEN Settles("MessageError", FALSE)
  ELSE IF answer = "reject" THEN Settles("MessageError", TRUE)
  ELSE Settles("ok", TRUE)

DiscordCallInit ==
  /\ MainInit
  /\ MsgInit /\ WsInit /\ lastNative = NoNative /\ disconnectedAt = -1
  /\ bagCase = NoCase /\ httpCase = NoCase /\ channelCase = NoCase
  /\ opCase \in {[kind |-> "call", applied |-> FALSE, op |-> op, connected |-> c,
                  channel |-> ch] :
                   op \in MessagingOps, c \in BOOLEAN, ch \in FetchedChannels}
  /\ envAllow = Undefined
  /\ preventAutoStart = Undefined
  /\ colorCase = NoColorCase
  /\ embedCase = NoEmbedCase
  /\ loggerLevel = -1
  /\ childLoggers = <<>>
  /\ lastEmit = NoEmit

\* the call runs; the native SDK answers the message fetch and the
\* send/edit/delete one way or the other
DiscordCall ==
  /\ opCase.kind = "call" /\ ~opCase.applied
  /\ \E answer \in {"ok", "no message", "reject"} :
       \* only editMessage and deleteMessage fetch the message
       /\ (opCase.op = "sendMessage") => answer # "no message"
       /\ opCase' =
            [kind |-> "call", applied |-> TRUE, op |-> opCase.op,
             connected |-> opCase.connected, channel |-> opCase.channel,
             answer |-> answer,
             result |-> DiscordMessaging(opCase.op, opCase.connected, opCase.channel,
                                         answer).result,
             acted |-> DiscordMessaging(opCase.op, opCase.connected, opCase.channel,
                                        answer).acted]
  /\ UNCHANGED <<mainVars, sideVars, loggerVars, disconnectedAt, msgVars, wsVars, lastNative, bagCase,
                 httpCase, channelCase>>

DiscordCallNext == DiscordCall

DiscordCallSpec == DiscordCallInit /\ [][DiscordCallNext]_vars

\* ========================================================== channel types

\* the generic ChannelType
ChannelTypes == {"text", "voice", "dm", "group", "category", "announcement", "thread"}

\* largest native channel-type number tried
MaxChannelType == 20
NativeChannelNumbers == 0..MaxChannelType
\* channel-type strings of the Root stub: the declared ones, other spellings
\* and unknown ones
StubChannelTypes ==
  {"text", "chat", "voice", "dm", "direct", "group", "announcement", "thread",
   "Voice", "TEXT", "DM", "forum", ""}

convertChannelType_Strict(type) ==
  CASE type = 0 -> "text"
    [] type = 1 -> "dm"
    [] type = 2 -> "voice"
    [] type = 3 -> "group"
    [] type = 4 -> "category"
    [] type = 5 -> "announcement"
    [] type \in {10, 11, 12} -> "thread"
    [] OTHER -> "unknown"

\* convertChannelType of the Discord converters, on the numbers of discord.js
\* ChannelType (GuildText 0, DM 1, GuildVoice 2, GroupDM 3, GuildCategory 4,
\* GuildAnnouncement 5, AnnouncementThread 10, PublicThread 11,
\* PrivateThread 12)
convertChannelType(type) ==
  CASE type = 0 -> "text"
    [] type = 1 -> "dm"
    [] type = 2 -> "voice"
    [] type = 3 -> "group"
    [] type = 4 -> "category"
    [] type = 5 -> "announcement"
    [] type \in {10, 11, 12} -> "thread"
    [] OTHER -> "text"

\* the values each lookup table has a case for
DiscordMapped == {0, 1, 2, 3, 4, 5, 10, 11, 12}
RootMapped == {0, 1, 2}
StubMapped == {"text", "chat", "voice", "dm", "direct", "group"}

\* convertChannelType of the Root SDK converters (Unspecified 0, Text 1,
\* ThreadedText 2)
rootConvertChannelType(channelType) ==
  CASE channelType \in {1, 2} -> "text"
    [] channelType = 0 -> "text"
    [] OTHER -> "text"

\* convertChannelType of the Root stub converters: switch (type.toLowerCase())
stubConvertChannelType(type) ==
  LET t == toLowerCase(type) IN
  CASE t \in {"text", "chat"} -> "text"
    [] t = "voice" -> "voice"
    [] t \in {"dm", "direct"} -> "dm"
    [] t = "group" -> "group"
    [] OTHER -> "text"

ChannelInit ==
  /\ MainInit
  /\ MsgInit /\ WsInit /\ lastNative = NoNative /\ disconnectedAt = -1
  /\ bagCase = NoCase /\ httpCase = NoCase /\ opCase = NoCase
  /\ channelCase \in
       {[kind |-> k, applied |-> FALSE, type |-> n] :
          k \in {"discord", "root"}, n \in NativeChannelNumbers}
       \cup {[kind |-> "stub", applied |-> FALSE, type |-> t] : t \in StubChannelTypes}
  /\ envAllow = Undefined
  /\ preventAutoStart = Undefined
  /\ colorCase = NoColorCase
  /\ embedCase = NoEmbedCase
  /\ loggerLevel = -1
  /\ childLoggers = <<>>
  /\ lastEmit = NoEmit

\* toGenericChannel / convertChannelToGeneric convert the native type
ConvertChannelType ==
  /\ channelCase.kind # "none" /\ ~channelCase.applied
  /\ channelCase' =
       [kind |-> channelCase.kind, applied |-> TRUE, type |-> channelCase.type,
        result |-> CASE channelCase.kind = "discord" -> convertChannelType(channelCase.type)
                     [] channelCase.kind = "root" -> rootConvertChannelType(channelCase.type)
                     [] OTHER -> stubConvertChannelType(channelCase.type)]
  /\ UNCHANGED <<mainVars, sideVars, loggerVars, disconnectedAt, msgVars, wsVars, lastNative, bagCase,
                 httpCase, opCase>>

ChannelNext == ConvertChannelType

ChannelSpec == ChannelInit /\ [][ChannelNext]_vars

\* ===================================================== partial entities

\* the native event a listener was last called with
NativeCall(event, oldPartial, newPartial, malformed) ==
  [event |-> event, oldPartial |-> oldPartial, newPartial |-> newPartial,
   malformed |-> malformed, seq |-> nativeSeq + 1]

\* everything a listener leaves alone, but for the record of its call
observedFrame == <<msgVars, caseVars, wsVars, disconnectedAt, ctorVars, clientErrorHandler, connVars,
                   lastDisconnect, lastOp, pending, lastGate, loggerVars, envAllow,
                   preventAutoStart, colorCase, embedCase>>

\* discord.js delivers messageUpdate with whole or partial messages
PartialMessageUpdate ==
  /\ \E oldPartial \in BOOLEAN, newPartial \in BOOLEAN, malformed \in BOOLEAN :
       /\ onMessageUpdate(oldPartial, newPartial, malformed)
       /\ lastNative' = NativeCall("messageUpdate", oldPartial, newPartial, malformed)
  /\ UNCHANGED observedFrame

\* discord.js delivers messageDelete with a whole or a partial message
PartialMessageDelete ==
  /\ \E partial \in BOOLEAN, malformed \in BOOLEAN :
       /\ onMessageDelete(partial, malformed)
       /\ lastNative' = NativeCall("messageDelete", partial, partial, malformed)
  /\ UNCHANGED observedFrame

\* discord.js delivers guildMemberAdd / guildMemberRemove with a whole or a
\* partial member
PartialGuildMember ==
  /\ \E name \in {"guildMemberAdd", "guildMemberRemove"}, partial \in BOOLEAN,
        malformed \in BOOLEAN :
       /\ onGuildMember(name, partial, malformed)
       /\ lastNative' = NativeCall(name, partial, partial, malformed)
  /\ UNCHANGED observedFrame

\* discord.js delivers guildMemberUpdate with whole or partial members
PartialGuildMemberUpdate ==
  /\ \E oldPartial \in BOOLEAN, newPartial \in BOOLEAN, malformed \in BOOLEAN :
       /\ onGuildMemberUpdate(oldPartial, newPartial, malformed)
       /\ lastNative' = NativeCall("guildMemberUpdate", oldPartial, newPartial, malformed)
  /\ UNCHANGED observedFrame

\* one Discord session and the events that may carry partials; they arrive
\* once the gateway has accepted the login, before or after ClientReady
PartialNext ==
  \/ Constructor
  \/ DiscordConnect
  \/ NativeLoginAccepted
  \/ DiscordClientReady
  \/ PartialMessageUpdate
  \/ PartialMessageDelete
  \/ PartialGuildMember
  \/ PartialGuildMemberUpdate

\* ======================================================== late callbacks

\* disconnect(), with the number of connect() calls made so far noted when
\* it returns normally
DisconnectObserved ==
  /\ disconnect
  /\ disconnectedAt' = IF lastDisconnect'.threw THEN disconnectedAt ELSE connectSeq
  /\ UNCHANGED <<msgVars, caseVars, wsVars, lastNative>>

\* the connection life cycle, with disconnect() allowed at any moment
LateNext ==
  \/ Constructor
  \/ DiscordConnect
  \/ NativeLoginAccepted
  \/ DiscordLoginResolves
  \/ DiscordLoginRejects
  \/ DiscordClientReady
  \/ RootConnect
  \/ RootStartResolves
  \/ RootAttemptFails
  \/ RootRetry
  \/ RootAppConnect
  \/ DisconnectObserved
  \/ NativeConnectionLost

\* ================================================== Root websocket client

\* WebSocket objects created in one run
MaxSockets == 2
\* `this.config.maxReconnectAttempts || 5`
DefaultMaxReconnectAttempts == 5

\* maxReconnectAttempts 0: not set
WsConfigs == [autoReconnect : BOOLEAN, maxReconnectAttempts : 0..MaxAttemptsCfg]

maxReconnect ==
  IF wsConfig.maxReconnectAttempts = 0 THEN DefaultMaxReconnectAttempts
  ELSE wsConfig.maxReconnectAttempts

\* a WebSocket made by connect(), with the promise connect() returned, the
\* 30 s timer it armed, and who called connect()
NewSocket(origin) ==
  [state |-> "connecting", origin |-> origin, promise |-> "pending", timer |-> TRUE,
   ready |-> FALSE, errored |-> FALSE]

wsFrame == <<mainVars, sideVars, loggerVars, msgVars, caseVars, lastNative, disconnectedAt>>

WsStart ==
  /\ MainInit
  /\ MsgInit /\ CaseInit /\ lastNative = NoNative /\ disconnectedAt = -1
  /\ ws = 0
  /\ sockets = <<>>
  /\ wsConfig \in WsConfigs
  /\ reconnectAttempts = 0
  /\ isReconnecting = FALSE
  /\ heartbeatInterval = FALSE
  /\ reconnectTimers = 0
  /\ wsLog = NoWsLog
  /\ envAllow = Undefined
  /\ preventAutoStart = Undefined
  /\ colorCase = NoColorCase
  /\ embedCase = NoEmbedCase
  /\ loggerLevel = -1
  /\ childLoggers = <<>>
  /\ lastEmit = NoEmit

\* attemptReconnect(), entered with the given isReconnecting flag: the
\* fields it leaves behind
attemptReconnect(reconnecting, attempts) ==
  /\ IF reconnecting
     THEN /\ isReconnecting' = TRUE
          /\ reconnectAttempts' = attempts
          /\ UNCHANGED reconnectTimers
          /\ wsLog' = wsLog
     ELSE IF attempts >= maxReconnect
     THEN /\ isReconnecting' = FALSE
          /\ reconnectAttempts' = attempts
          /\ UNCHANGED reconnectTimers
          /\ wsLog' = [wsLog EXCEPT !.maxReached = TRUE]
     ELSE /\ isReconnecting' = TRUE
          /\ reconnectAttempts' = attempts + 1
          /\ reconnectTimers' = reconnectTimers + 1
          /\ wsLog' = [wsLog EXCEPT !.attempts = @ + 1]

\* the user calls connect(): a new WebSocket becomes this.ws
WsConnect ==
  /\ wsLog.user \in {"new", "disconnected"}
  /\ Len(sockets) < MaxSockets
  /\ sockets' = Append(sockets, NewSocket("user"))
  /\ ws' = Len(sockets) + 1
  /\ wsLog' = [user |-> "connected", attempts |-> 0, maxReached |-> FALSE,
               opened |-> FALSE, heartbeat |-> FALSE]
  /\ UNCHANGED <<wsConfig, reconnectAttempts, isReconnecting, heartbeatInterval,
                 reconnectTimers>>
  /\ UNCHANGED wsFrame

\* 'open' of socket s: the attempt counter is reset
WsOpen ==
  /\ \E s \in 1..Len(sockets) :
       /\ sockets[s].state = "connecting"
       /\ sockets' = [sockets EXCEPT ![s].state = "open"]
  /\ reconnectAttempts' = 0
  /\ UNCHANGED <<ws, wsConfig, isReconnecting, heartbeatInterval, reconnectTimers, wsLog>>
  /\ UNCHANGED wsFrame

\* the READY dispatch arrives on socket s: the heartbeat starts when the
\* payload carries an interval, and the promise of that connect() resolves;
\* for a reconnect the then-callback clears isReconnecting
WsReady ==
  /\ \E s \in 1..Len(sockets), interval \in BOOLEAN :
       /\ sockets[s].state = "open" /\ ~sockets[s].ready
       /\ sockets' = [sockets EXCEPT ![s].ready = TRUE,
                                     ![s].promise = IF @ = "pending" THEN "resolved" ELSE @]
       /\ heartbeatInterval' = (heartbeatInterval \/ interval)
       /\ isReconnecting' = IF sockets[s].origin = "reconnect" /\ sockets[s].promise = "pending"
                            THEN FALSE ELSE isReconnecting
  /\ wsLog' = [wsLog EXCEPT !.attempts = 0]
  /\ UNCHANGED <<ws, wsConfig, reconnectAttempts, reconnectTimers>>
  /\ UNCHANGED wsFrame

\* the promise of connect() number s is rejected (by 'error' or by the 30 s
\* timer): nothing happens when it was settled before; the caller gets the
\* rejection of a connect() of its own; the catch of attemptReconnect clears
\* isReconnecting and calls attemptReconnect() again
Reject(s) ==
  IF sockets[s].promise = "pending" /\ sockets[s].origin = "reconnect"
  THEN attemptReconnect(FALSE, reconnectAttempts)
  ELSE UNCHANGED <<isReconnecting, reconnectAttempts, reconnectTimers, wsLog>>

\* 'error' of socket s
WsError ==
  /\ \E s \in 1..Len(sockets) :
       /\ sockets[s].state \in {"connecting", "open"} /\ ~sockets[s].errored
       /\ sockets' = [sockets EXCEPT ![s].errored = TRUE,
                                     ![s].promise = IF @ = "pending" THEN "rejected" ELSE @]
       /\ Reject(s)
  /\ UNCHANGED <<ws, wsConfig, heartbeatInterval>>
  /\ UNCHANGED wsFrame

\* the 30 s timer of connect() number s fires and looks at this.ws, whichever
\* socket that is by now
WsTimeout ==
  /\ \E s \in 1..Len(sockets) :
       /\ sockets[s].timer
       /\ IF ws # 0 /\ sockets[ws].state = "open"
          THEN /\ sockets' = [sockets EXCEPT ![s].timer = FALSE]
               /\ UNCHANGED <<isReconnecting, reconnectAttempts, reconnectTimers, wsLog>>
          ELSE /\ sockets' = [sockets EXCEPT ![s].timer = FALSE,
                                             ![s].promise = IF @ = "pending" THEN "rejected"
                                                            ELSE @]
               /\ Reject(s)
  /\ UNCHANGED <<ws, wsConfig, heartbeatInterval>>
  /\ UNCHANGED wsFrame

\* 'close' of socket s: cleanup(), then attemptReconnect() when autoReconnect
\* is on and no reconnect is under way
WsClose ==
  /\ \E s \in 1..Len(sockets) :
       /\ sockets[s].state \in {"connecting", "open", "closing"}
       /\ sockets' = [sockets EXCEPT ![s].state = "closed"]
  /\ heartbeatInterval' = FALSE
  /\ IF wsConfig.autoReconnect /\ ~isReconnecting
     THEN attemptReconnect(isReconnecting, reconnectAttempts)
     ELSE UNCHANGED <<isReconnecting, reconnectAttempts, reconnectTimers, wsLog>>
  /\ UNCHANGED <<ws, wsConfig>>
  /\ UNCHANGED wsFrame

\* the timer set by attemptReconnect fires: connect()
WsReconnectTimer ==
  /\ reconnectTimers > 0
  /\ Len(sockets) < MaxSockets
  /\ reconnectTimers' = reconnectTimers - 1
  /\ sockets' = Append(sockets, NewSocket("reconnect"))
  /\ ws' = Len(sockets) + 1
  /\ wsLog' = [wsLog EXCEPT !.opened = (wsLog.user = "disconnected")]
  /\ UNCHANGED <<wsConfig, reconnectAttempts, isReconnecting, heartbeatInterval>>
  /\ UNCHANGED wsFrame

\* the user calls disconnect()
WsDisconnect ==
  /\ wsLog.user = "connected"
  /\ isReconnecting' = FALSE
  /\ heartbeatInterval' = FALSE
  /\ sockets' = IF ws # 0 /\ sockets[ws].state \in {"connecting", "open"}
                THEN [sockets EXCEPT ![ws].state = "closing"]
                ELSE sockets
  /\ ws' = 0
  /\ wsLog' = [wsLog EXCEPT !.user = "disconnected", !.opened = FALSE, !.heartbeat = FALSE]
  /\ UNCHANGED <<wsConfig, reconnectAttempts, reconnectTimers>>
  /\ UNCHANGED wsFrame

\* the heartbeat interval fires and the payload goes out on an open this.ws
WsHeartbeat ==
  /\ heartbeatInterval
  /\ ws # 0 /\ sockets[ws].state = "open"
  /\ ~wsLog.heartbeat
  /\ wsLog' = [wsLog EXCEPT !.heartbeat = TRUE]
  /\ UNCHANGED <<ws, sockets, wsConfig, reconnectAttempts, isReconnecting,
                 heartbeatInterval, reconnectTimers>>
  /\ UNCHANGED wsFrame

WsNext ==
  \/ WsConnect
  \/ WsOpen
  \/ WsReady
  \/ WsError
  \/ WsTimeout
  \/ WsClose
  \/ WsReconnectTimer
  \/ WsDisconnect
  \/ WsHeartbeat

WsSpec == WsStart /\ [][WsNext]_vars

\* =========================================================== specification

\* steps the runtime takes on its own: a pending login or start attempt
\* settles one way or the other, a timer expires, a scheduled callback runs
ConnInternal ==
  \/ NativeLoginAccepted
  \/ DiscordLoginRejects
  \/ DiscordLoginResolves
  \/ DiscordClientReady
  \/ RootStartResolves
  \/ RootAttemptFails
  \/ RootRetry

\* construction, connection and teardown
ConnNext ==
  \/ Constructor
  \/ DiscordConnect
  \/ NativeLoginAccepted
  \/ DiscordLoginResolves
  \/ DiscordLoginRejects
  \/ DiscordClientReady
  \/ RootConnect
  \/ RootStartResolves
  \/ RootAttemptFails
  \/ RootRetry
  \/ RootAppConnect
  \/ Disconnect
  \/ NativeConnectionLost

\* the generic operation surface on top of the connection life cycle
OpsNext ==
  \/ ConnNext
  \/ Invoke

\* the inbound event flow of a provider that connects: construction, handler
\* registration, the connect steps that bring a session up, and the listeners
EventsNext ==
  \/ Constructor
  \/ RegisterErrorHandler
  \/ DiscordConnect
  \/ NativeLoginAccepted
  \/ DiscordLoginResolves
  \/ DiscordClientReady
  \/ RootConnect
  \/ RootStartResolves
  \/ RootAppConnect
  \/ DiscordMessageCreate
  \/ RootMessageCreated
  \/ RootAsyncEvent
  \/ RootFetchResolves
  \/ RootFetchRejects
  \/ ThemeUpdate

\* the startup gate in front of the connection life cycle
GateNext ==
  \/ Constructor
  \/ SetEnv
  \/ SetPreventAutoStart
  \/ ConnectBlocked
  \/ DiscordConnect
  \/ NativeLoginAccepted
  \/ DiscordLoginResolves
  \/ DiscordClientReady
  \/ RootConnect
  \/ RootStartResolves
  \/ RootAppConnect

Next == ConnNext

Spec == Init /\ [][Next]_vars
OpsSpec == Init /\ [][OpsNext]_vars
EventsSpec == Init /\ [][EventsNext]_vars
GateSpec == Init /\ [][GateNext]_vars
LoggerSpec == Init /\ [][LoggerNext]_vars
PayloadSpec == Init /\ [][PayloadNext]_vars
MessageSpec == Init /\ [][MessageNext]_vars
PartialSpec == Init /\ [][PartialNext]_vars
LateSpec == Init /\ [][LateNext]_vars

\* the runtime does not stall: a settled promise, an expired timer or a
\* scheduled callback is eventually run
FairSpec == Spec /\ WF_vars(ConnInternal)

TypeOK ==
  /\ ctor \in {"new", "ok", "failed"}
  /\ platformName \in {"none", "discord", "root", "root-app"}
  /\ isConnected \in BOOLEAN
  /\ native \in {"idle", "connecting", "up", "lost", "down"}
  /\ connectSeq \in 0..MaxConnects
  /\ nativeSeq \in 0..MaxNativeEvents

\* ================================================================== claims

\* C1: an operation of the generic surface invoked while isConnected is false
\* fails with a 'not connected' error and makes no native SDK call, on every
\* provider.
C1_NotConnectedGuard ==
  (lastOp.op # "none" /\ ~lastOp.connected)
    => (lastOp.result = "NotConnected" /\ ~lastOp.nativeCalled)

\* C2: when connect() returns successfully, isConnected is already true and a
\* `ready` event has been emitted for that connect.
C2_ConnectReturnsReady ==
  (connectReturn.result = "ok") => (connectReturn.connected /\ connectReturn.ready)

\* C3: when every native attempt of a connect() failed, connect() rejects with
\* AuthenticationError, isConnected is false at that moment and no `ready`
\* event was emitted for that connect.
C3_FailedConnectRejects ==
  connectReturn.allFailed
    => /\ connectReturn.result = "AuthenticationError"
       /\ ~connectReturn.connected
       /\ ~connectReturn.ready

\* C4: once disconnect() has run, isConnected is false, also when the native
\* teardown call failed.
C4_DisconnectLeavesDisconnected ==
  lastDisconnect.called => ~lastDisconnect.connectedAfter

\* C5: whenever the native connection is lost while isConnected is true and
\* disconnect() is not called, isConnected eventually becomes false.
C5_LostConnectionDisconnects ==
  (unattendedLoss /\ isConnected) ~> (~isConnected \/ ~unattendedLoss)

\* C6: a conversion failure inside a provider listener is turned into an
\* `error` event and no exception leaves the native listener callback, whether
\* or not an `error` handler is registered.
C6_ConversionErrorContained ==
  escaped # "listener"

\* C7: the UnifiedClient emits exactly the events its provider emitted: same
\* names, same arguments, same order, none dropped or duplicated.
C7_ClientForwardsVerbatim ==
  clientEvents = providerEvents

\* C8: generic events leave the provider in the order in which the native SDK
\* delivered the native events they come from.
C8_NativeOrderPreserved ==
  \A i, j \in 1..Len(providerEvents) :
    (i < j /\ providerEvents[i].seq > 0 /\ providerEvents[j].seq > 0)
      => providerEvents[i].seq < providerEvents[j].seq

\* the errors by which the Root converter names an unsupported feature
UnsupportedFeatureErrors ==
  {"Error: File attachments in Root require client-side upload",
   "Error: Rich embeds are not supported by Root platform"}

KnownPlatforms == {"discord", "root", "root-app"}

\* C10: a UnifiedClient constructed with a platform identifier that has no
\* provider throws UnsupportedPlatformError from the constructor: no provider
\* exists, no forwarding is set up and no connection attempt was made.
C10_UnknownPlatformThrows ==
  (ctor # "new" /\ toLowerCase(ctorInput) \notin KnownPlatforms)
    => /\ ctor = "failed"
       /\ ctorError = "UnsupportedPlatformError"
       /\ ~providerCreated /\ platformName = "none"
       /\ ~forwarding
       /\ connectSeq = 0 /\ native = "idle" /\ ~isConnected

C10_Witness ==
  /\ ctor = "failed"
  /\ ctorInput = "slack"
  /\ ctorError = "UnsupportedPlatformError"

\* C11: color normalization round-trips.  For every integer n of 0..0xFFFFFF,
\* normalizeColor(normalizeColorToHex(n)) = n; for every 6-digit hex string h,
\* normalizeColor('#'+h) = normalizeColor(h) = the integer h denotes, and
\* normalizeColorToHex of both string forms and of that integer yield the same
\* string.
C11_ColorRoundTrip ==
  /\ (colorCase.kind = "number" /\ colorCase.applied) => colorCase.back = Num(colorCase.n)
  /\ (colorCase.kind = "string" /\ colorCase.applied) =>
       /\ colorCase.plain = Num(HexValue(colorCase.h))
       /\ colorCase.hashed = colorCase.plain
       /\ colorCase.hexPlain = colorCase.hexHashed
       /\ colorCase.hexNumber = colorCase.hexPlain

\* the url of an optional image
ImageUrl(image) == IF image.set THEN image.v.url ELSE Undefined

\* C12: for every generic Embed e, toGenericEmbed(toDiscordEmbed(e)) preserves
\* title, description, url, color (as the same integer, for every color
\* including 0 and '#000000'), fields, footer text and icon, image and
\* thumbnail URLs, author name, icon and url, and timestamp.
C12_EmbedRoundTrip ==
  embedCase.applied =>
    LET e == embedCase.e
        back == embedCase.back
    IN /\ back.title = e.title
       /\ back.description = e.description
       /\ back.url = e.url
       /\ back.color = normalizeColor(e.color)
       /\ (e.fields.set /\ Len(e.fields.v) > 0) => back.fields = e.fields
       /\ back.footer = e.footer
       /\ ImageUrl(back.image) = ImageUrl(e.image)
       /\ ImageUrl(back.thumbnail) = ImageUrl(e.thumbnail)
       /\ back.author = e.author
       /\ back.timestamp = e.timestamp

\* C14: the startup gate of UnifiedClient.connect, with E the value of
\* ALLOW_<PLATFORM>_BOT and P config.preventAutoStart at connect time: connect
\* is blocked iff E = 'false', or P = true and E # 'true'.  When blocked,
\* provider.connect() is not called and isConnected is unchanged; otherwise
\* provider.connect() is called.
C14_StartupGate ==
  lastGate.called =>
    /\ lastGate.blocked <=>
         (lastGate.env = "false"
            \/ (lastGate.prevent = "boolean true" /\ lastGate.env # "true"))
    /\ lastGate.blocked =>
         (~lastGate.providerCalled /\ lastGate.connectedAfter = lastGate.connectedBefore)
    /\ ~lastGate.blocked => lastGate.providerCalled

C14_Witness ==
  /\ lastGate.called /\ lastGate.blocked
  /\ lastGate.prevent = "boolean true" /\ lastGate.env = "TRUE"
  /\ lastGate.connectedBefore /\ isConnected

\* the results whose error message contains 'not supported' / 'not found'
NotSupportedErrors ==
  {"Error: Rich embeds are not supported by Root platform",
   "Error: not supported in Root Apps"}
NotFoundErrors == {"ResourceNotFoundError"}

\* C13: on the Root provider after a successful connect(), sendMessage,
\* editMessage and deleteMessage reject with an error whose message contains
\* 'not supported', and getUser, getChannel and getGuild reject with an error
\* whose message contains 'not found', for every argument.
C13_RootStubRejects ==
  (platformName = "root" /\ lastOp.op # "none" /\ lastOp.connected)
    => IF lastOp.op \in {"sendMessage", "editMessage", "deleteMessage"}
       THEN lastOp.result \in NotSupportedErrors
       ELSE lastOp.result \in NotFoundErrors

\* config.token values that are no token: key absent, undefined, null
MissingTokens == {"absent", Undefined, "null"}

\* C15 as stated: constructing any provider whose config has no token throws
\* 'Missing required config property: token' from the constructor, before a
\* native client is obtained and before a native listener is registered.
C15_MissingTokenThrows ==
  (ctor # "new" /\ toLowerCase(ctorInput) \in KnownPlatforms /\ ctorToken \in MissingTokens)
    => /\ ctor = "failed"
       /\ ctorError = "Missing required config property: token"
       /\ ~providerCreated /\ ~nativeListeners

\* C15, amended: the Discord and the Root provider throw 'Missing required
\* config property: token' from the constructor when the config has no token,
\* before a native client is obtained and before a native listener is
\* registered; the Root App provider needs no token and is constructed.
C15_MissingTokenThrowsExceptRootApp ==
  (ctor # "new" /\ ctorToken \in MissingTokens)
    => /\ toLowerCase(ctorInput) \in {"discord", "root"}
           => /\ ctor = "failed"
              /\ ctorError = "Missing required config property: token"
              /\ ~providerCreated /\ ~nativeListeners
              /\ platformName = "none" /\ connectSeq = 0
       /\ toLowerCase(ctorInput) = "root-app"
           => (ctor = "ok" /\ providerCreated /\ nativeListeners)

C15_Witness ==
  /\ ctor = "failed"
  /\ ctorInput = "root" /\ ctorToken = "null"
  /\ ctorError = "Missing required config property: token"

\* C16: getUser, getChannel and getGuild on a connected Discord or Root
\* provider fail with a 'resource not found' error whenever the native SDK
\* reports no such entity (the native fetch rejects or returns nothing).
C16_ResourceNotFound ==
  (platformName \in {"discord", "root"} /\ lastOp.connected
     /\ lastOp.op \in {"getUser", "getChannel", "getGuild"}
     /\ lastOp.nativeCalled /\ lastOp.answer \in {"absent", "reject"})
    => lastOp.result \in NotFoundErrors

\* C17: RootProvider.connect() always terminates: it makes at most
\* maxReconnectAttempts start attempts, each ended by the timeout if the native
\* start call never settles, sleeps only between attempts, and after the last
\* failed attempt rejects with AuthenticationError instead of retrying.
C17_RootConnectTerminates ==
  /\ [](platformName = "root" =>
          /\ attempt <= maxAttempts
          /\ connectPc = "sleeping" => attempt < maxAttempts
          /\ connectReturn.allFailed => connectReturn.result = "AuthenticationError")
  /\ (platformName = "root" /\ connectPc # "idle") ~> (connectPc = "idle")

\* C18: a child logger takes the parent's level when child() is called and is
\* unaffected afterwards: a later setLevel on the parent leaves every child's
\* getLevel() unchanged, and setLevel on a child leaves the parent unchanged.
\* So UnifiedClient.setLogLevel after construction does not change the level of
\* the provider's logger.
C18_ChildLevelIndependent ==
  [][/\ \A i \in DOMAIN childLoggers :
          /\ i \in DOMAIN childLoggers'
          /\ loggerLevel' # loggerLevel
               => getLevel(childLoggers'[i]) = getLevel(childLoggers[i])
          /\ getLevel(childLoggers'[i]) # getLevel(childLoggers[i])
               => loggerLevel' = loggerLevel
     /\ \A i \in DOMAIN childLoggers' \ DOMAIN childLoggers :
          getLevel(childLoggers'[i]) = loggerLevel']_vars

C18_Witness ==
  /\ ctor = "ok"
  /\ \E i \in DOMAIN childLoggers :
       /\ childLoggers[i].owner = "provider"
       /\ ~childLoggers[i].own
       /\ getLevel(childLoggers[i]) # loggerLevel

\* the generic entities that carry a platform tag
GenericEntities == {"Message", "User", "Channel", "Guild", "GuildMember"}

\* C19: every generic entity a provider returns from an operation or passes as
\* an event argument carries a platform tag equal to the platformName of the
\* provider that produced it.
C19_PlatformTagged ==
  /\ \A provider \in KnownPlatforms :
       \A op \in ReturningOps(provider) : ReturnedEntity(provider, op).platform = provider
  /\ \A i \in DOMAIN lastEmit.args :
       lastEmit.args[i].entity \in GenericEntities
         => lastEmit.args[i].platform = lastEmit.platform

\* C20: every messageUpdate event has exactly two arguments: the message as it
\* was before the edit, or null, and the message after the edit; the first
\* argument is never the post-edit message.
C20_MessageUpdateArguments ==
  lastEmit.name = "messageUpdate"
    => /\ Len(lastEmit.args) = 2
       /\ \/ lastEmit.args[1] = Null
          \/ /\ lastEmit.args[1].entity = "Message"
             /\ lastEmit.args[1].version = "before"
       /\ lastEmit.args[2].entity = "Message"
       /\ lastEmit.args[2].version = "after"
       /\ lastEmit.args[1] # lastEmit.args[2]

\* C21: a generic Message is never mutated after construction.  Whatever
\* method of a held Message was called last (reply, edit, delete, react) and
\* however it settled, the Message the caller holds is field for field what
\* it was before the call; a successful edit(c) returned a Message whose
\* content is c.
C21_MessageImmutable ==
  lastMessageOp.op # "none" =>
    /\ heldMessage = lastMessageOp.before
    /\ (lastMessageOp.op = "edit" /\ lastMessageOp.result = "ok") =>
         /\ lastMessageOp.returned.kind = "message"
         /\ lastMessageOp.returned.content = lastMessageOp.content

\* an edit of a Discord Message succeeded with a content other than the
\* original's, and the native message object was patched by it
C21_Witness ==
  /\ lastMessageOp.op = "edit"
  /\ lastMessageOp.platform = "discord"
  /\ lastMessageOp.result = "ok"
  /\ lastMessageOp.content # lastMessageOp.before.content
  /\ nativeMessage.content = lastMessageOp.content

\* C29: the methods bound to a generic Message obey the connect guard.  A
\* method called while the owning provider's isConnected is false fails with
\* the not-connected error and makes no native SDK call.
C29_MessageMethodsGuarded ==
  (lastMessageOp.op # "none" /\ ~lastMessageOp.connected) =>
    /\ lastMessageOp.result = "not connected"
    /\ ~lastMessageOp.nativeCalled

\* C22: no generic feature of a MessageOptions bag is silently dropped when
\* sending on Root.  For a bag sent through a connected provider, every
\* feature that is set (content, embeds, files, tts, components, ephemeral,
\* replyTo) is in the native create request, or sendMessage failed with the
\* error naming an unsupported feature; a bag with components or replyTo is
\* never sent as plain content only.
C22_NoFeatureDropped ==
  (bagCase.kind = "bag" /\ bagCase.applied) =>
    /\ \A f \in Features(bagCase.options) :
         \/ bagCase.nativeCalled /\ f \in bagCase.request
         \/ bagCase.result \in UnsupportedFeatureErrors
         \/ f = "content" /\ bagCase.result = "Error: Failed to send message"
    /\ ({"components", "replyTo"} \cap Features(bagCase.options) # {})
         => ~(bagCase.nativeCalled /\ bagCase.request = {"content"})

\* C24: RootHTTPClient.request surfaces typed failures by HTTP status.  The
\* caller of get/post/put/patch/delete observes AuthenticationError for a 401
\* or 403 response, ResourceNotFoundError for a 404, and for a 429 a
\* rate-limit failure carrying the Retry-After value; the class chosen in
\* handleErrorResponse is the class the caller observes.
C24_TypedHttpFailures ==
  (httpCase.kind = "http" /\ httpCase.applied /\ httpCase.response.status # 0) =>
    LET status == httpCase.response.status IN
    /\ status \in {401, 403} =>
         /\ httpCase.outcome = "rejected" /\ httpCase.class = "AuthenticationError"
    /\ status = 404 =>
         /\ httpCase.outcome = "rejected" /\ httpCase.class = "ResourceNotFoundError"
    /\ status = 429 =>
         /\ httpCase.outcome = "rejected"
         /\ httpCase.response.retryAfter # Undefined
              => httpCase.retryAfter = httpCase.response.retryAfter
    /\ status \notin {200, 204} =>
         httpCase.class = handleErrorResponse(httpCase.response).class

\* C25: DiscordProvider.sendMessage/editMessage/deleteMessage validate the
\* target channel before acting.  On a connected provider, a fetched channel
\* that is absent, not text-based or without a send method makes the call
\* fail with ChannelError and the native send/edit/delete is never invoked;
\* every other native failure is a MessageError; a not-connected failure is
\* reported unwrapped.
C25_ChannelValidated ==
  (opCase.kind = "call" /\ opCase.applied) =>
    /\ ~opCase.connected => (opCase.result = "NotConnected" /\ ~opCase.acted)
    /\ (opCase.connected /\ opCase.channel \in {"absent", "nontext", "nosend"})
         => (opCase.result = "ChannelError" /\ ~opCase.acted)
    /\ (opCase.connected /\ opCase.channel \notin {"absent", "nontext", "nosend"})
         => opCase.result \in {"ok", "MessageError"}

\* C25 as the code has it: the send method is looked for by sendMessage only;
\* editMessage and deleteMessage go on to the message of a text-based channel
\* that has no send method.
C25_ChannelValidatedSendOnly ==
  (opCase.kind = "call" /\ opCase.applied) =>
    LET refused == \/ opCase.channel \in {"absent", "nontext"}
                   \/ opCase.op = "sendMessage" /\ opCase.channel = "nosend"
    IN
    /\ ~opCase.connected => (opCase.result = "NotConnected" /\ ~opCase.acted)
    /\ (opCase.connected /\ refused) => (opCase.result = "ChannelError" /\ ~opCase.acted)
    /\ (opCase.connected /\ ~refused) => opCase.result \in {"ok", "MessageError"}
    /\ (opCase.connected /\ ~refused /\ opCase.result = "ok") => opCase.acted

\* sendMessage on a connected provider found a text-based channel without a
\* send method and failed with ChannelError before any native send
C25_Witness ==
  /\ opCase.kind = "call" /\ opCase.applied
  /\ opCase.op = "sendMessage" /\ opCase.connected /\ opCase.channel = "nosend"
  /\ opCase.result = "ChannelError" /\ ~opCase.acted

\* C27: channel-type conversion is total into the closed set {text, voice,
\* dm, group, category, announcement, thread}.  Every native channel-type
\* value given to one of the three converters, in the lookup table or not,
\* converts to a member of the set, and every value the table has no case
\* for converts to 'text'.
C27_ChannelTypeTotal ==
  (channelCase.kind # "none" /\ channelCase.applied) =>
    /\ channelCase.result \in ChannelTypes
    /\ (channelCase.kind = "discord" /\ channelCase.type \notin DiscordMapped)
         => channelCase.result = "text"
    /\ (channelCase.kind = "root" /\ channelCase.type \notin RootMapped)
         => channelCase.result = "text"
    /\ (channelCase.kind = "stub" /\ toLowerCase(channelCase.type) \notin StubMapped)
         => channelCase.result = "text"

\* a Discord channel type without a case (GuildForum, 15) was converted
C27_Witness ==
  /\ channelCase.kind = "discord" /\ channelCase.applied
  /\ channelCase.type = 15
  /\ channelCase.result = "text"

\* the names of the events the provider emitted for the last native call
EmittedForLast ==
  {providerEvents[i].name :
     i \in {j \in 1..Len(providerEvents) : providerEvents[j].seq = lastNative.seq}}

C28_DisconnectedStaysDisconnected ==
  (disconnectedAt = connectSeq) => ~isConnected

\* C23: the websocket client's automatic reconnection is bounded.  Since the
\* last successful READY (or the user's connect()), whatever open, close,
\* error and timeout events arrived, it has started at most
\* maxReconnectAttempts (default 5) reconnection attempts.
C23_ReconnectBounded ==
  wsLog.attempts <= maxReconnect

\* C30: after RootWebSocketClient.disconnect() the client opens no new socket
\* until the user calls connect() again, and sends no heartbeat: neither the
\* `close` event of the disconnect itself nor a reconnect timer scheduled
\* before it leads to a new connection attempt.
C30_NoSocketAfterDisconnect ==
  (wsLog.user = "disconnected") =>
    /\ ~wsLog.opened
    /\ ~wsLog.heartbeat

====
